---- MODULE Spec2Model ----
(***************************************************************************)
(* Model of the CEEMS eBPF collector programs (pkg/collector/bpf):         *)
(*   lib/bpf_cgroup.h    cgroup identifier of the current task             *)
(*   lib/bpf_path.h      mount path of a file, built backward in a per-CPU *)
(*                       scratch buffer                                    *)
(*   lib/bpf_sock.h      connection tuple and per-tuple delta statistics   *)
(*   vfs/bpf_vfs.h       read/write and inode accumulators                 *)
(*   network/bpf_network.h  ingress/egress/retransmission accumulators     *)
(*                                                                         *)
(* Unsigned 64-bit and 32-bit integers are kept at their width: a __u64 is *)
(* a tuple of four 16-bit limbs, least significant first, and a __u32 is a *)
(* tuple of two, so that wrap-around and narrowing are what the C code     *)
(* does.  Kernel memory is modelled as bytes; a pointer is <<>> (NULL, or  *)
(* a failed bounded read, which leaves zeroes) or <<object>>.              *)
(***************************************************************************)
EXTENDS Integers, Sequences, FiniteSets, TLC

(***************************************************************************)
(* Fixed-width unsigned arithmetic                                         *)
(***************************************************************************)
Limb == 0..65535

\* the __u64 whose value is n, for 0 <= n < 2^31
U64(n) == <<n % 65536, n \div 65536, 0, 0>>

\* the __u32 whose value is n, for 0 <= n < 2^31
U32(n) == <<n % 65536, n \div 65536>>

\* (__u32)x for a __u64 x: the low 32 bits
Trunc32(x) == <<x[1], x[2]>>

\* (__u64)x for a __u32 x: zero extension
Ext64(x) == <<x[1], x[2], 0, 0>>

\* x >> 32 for a __u64 x
Shr32(x) == <<x[3], x[4], 0, 0>>

\* a + b modulo 2^64
Add64(a, b) ==
    LET s1 == a[1] + b[1]
        s2 == a[2] + b[2] + (s1 \div 65536)
        s3 == a[3] + b[3] + (s2 \div 65536)
        s4 == a[4] + b[4] + (s3 \div 65536)
    IN  <<s1 % 65536, s2 % 65536, s3 % 65536, s4 % 65536>>

\* a - b modulo 2^64
Sub64(a, b) ==
    LET d1 == 65536 + a[1] - b[1]
        d2 == 65536 + a[2] - b[2] - (IF d1 < 65536 THEN 1 ELSE 0)
        d3 == 65536 + a[3] - b[3] - (IF d2 < 65536 THEN 1 ELSE 0)
        d4 == 65536 + a[4] - b[4] - (IF d3 < 65536 THEN 1 ELSE 0)
    IN  <<d1 % 65536, d2 % 65536, d3 % 65536, d4 % 65536>>

\* a < b for two __u64
Lt64(a, b) ==
    \/ a[4] < b[4]
    \/ a[4] = b[4] /\ a[3] < b[3]
    \/ a[4] = b[4] /\ a[3] = b[3] /\ a[2] < b[2]
    \/ a[4] = b[4] /\ a[3] = b[3] /\ a[2] = b[2] /\ a[1] < b[1]

Leq64(a, b) == a = b \/ Lt64(a, b)

Zero64 == <<0, 0, 0, 0>>

\* the __s64 whose value is n, for -2^31 < n < 2^31, as the 64 bits that hold
\* it; an __s64 x is negative when its bit 63 is set: x[4] >= 32768
S64(n) == IF n >= 0 THEN U64(n) ELSE Sub64(Zero64, U64(0 - n))

NULL == <<>>

(***************************************************************************)
(* Program constants                                                       *)
(***************************************************************************)
CGROUP_SUPER_MAGIC == 2613483          \* 0x27e0eb
CGROUP2_SUPER_MAGIC == 1667723888      \* 0x63677270
pids_cgrp_id == 11                     \* highest legacy subsystem index
PROBE_MNT_ITERATIONS == 8
MAX_BUF_LEN == 4096
MAX_MOUNT_SIZE == 64
UNRESOLVED_PATH_COMPONENTS == 2
ENAMETOOLONG == 36
AF_INET == 2
AF_INET6 == 10
IPPROTO_TCP == 6
IPPROTO_UDP == 17
MODE_READ == 0
MODE_WRITE == 1
MODE_OPEN == 2
MODE_CREATE == 3
MODE_MKDIR == 4
MODE_UNLINK == 5
MODE_RMDIR == 6
MODE_INGRESS == 0
MODE_EGRESS == 1

(***************************************************************************)
(* lib/bpf_cgroup.h: cgroup identifier of the current task                 *)
(*                                                                         *)
(* A task is [cgroups, dfl_cgrp_id]: cgroups points to its css_set, whose  *)
(* subsys array holds one cgroup_subsys_state pointer per subsystem index; *)
(* dfl_cgrp_id is what the kernel helper bpf_get_current_cgroup_id()       *)
(* returns for it (the id of its cgroup in the default hierarchy).         *)
(***************************************************************************)

\* __get_cgroup_kn: cgrp ? cgrp->kn : NULL
get_cgroup_kn(cgrp) == IF cgrp # NULL THEN cgrp[1].kn ELSE NULL

\* __get_cgroup_kn_id: kn ? kn->id : 0
get_cgroup_kn_id(kn) == IF kn = NULL THEN Zero64 ELSE kn[1].id

get_cgroup_id(cgrp) == get_cgroup_kn_id(get_cgroup_kn(cgrp))

\* subsys_idx is a __u32; the comparison with pids_cgrp_id is unsigned
get_task_cgroup(task, subsys_idx) ==
    IF task.cgroups = NULL THEN NULL
    ELSE IF subsys_idx[2] > 0 \/ subsys_idx[1] > pids_cgrp_id THEN NULL
    ELSE LET subsys == task.cgroups[1].subsys[subsys_idx[1]]
         IN  IF subsys = NULL THEN NULL ELSE subsys[1].cgroup

\* subsys_idx is an int, passed on as a __u32: the same 32 bits
ceems_get_current_cgroupv1_id(task, subsys_idx) ==
    LET cgrp == get_task_cgroup(task, subsys_idx)
    IN  IF cgrp = NULL THEN Zero64 ELSE get_cgroup_id(cgrp)

\* the kernel helper: id of the current task's cgroup in the default hierarchy
bpf_get_current_cgroup_id(task) == task.dfl_cgrp_id

\* conf is the content of conf_map: <<>> or <<[cgrp_subsys_idx, cgrp_fs_magic]>>
ceems_get_current_cgroup_id(conf, task) ==
    LET cgrpfs_magic == IF conf # NULL THEN conf[1].cgrp_fs_magic ELSE Zero64
        \* int subsys_idx = cfg->cgrp_subsys_idx keeps the low 32 bits
        subsys_idx == IF conf # NULL THEN Trunc32(conf[1].cgrp_subsys_idx) ELSE U32(1)
    IN  IF cgrpfs_magic = U64(CGROUP2_SUPER_MAGIC)
        THEN bpf_get_current_cgroup_id(task)
        ELSE ceems_get_current_cgroupv1_id(task, subsys_idx)

\* a task all of whose legacy subsystems and whose default hierarchy give id
TaskInCgroup(id) ==
    [cgroups |-> <<[subsys |-> [i \in 0..pids_cgrp_id |->
                        <<[cgroup |-> <<[kn |-> <<[id |-> id]>>]>>]>>]]>>,
     dfl_cgrp_id |-> id]

\* a task whose css_set pointer cannot be read
TaskNoCssSet(id) == [cgroups |-> NULL, dfl_cgrp_id |-> id]

\* the configuration records the loader writes at start-up
ConfV2 == <<[cgrp_subsys_idx |-> U64(0), cgrp_fs_magic |-> U64(CGROUP2_SUPER_MAGIC)]>>
ConfV1 == <<[cgrp_subsys_idx |-> U64(pids_cgrp_id), cgrp_fs_magic |-> U64(CGROUP_SUPER_MAGIC)]>>

(***************************************************************************)
(* lib/bpf_path.h: mount path of a file                                    *)
(*                                                                         *)
(* A file is [f_path_mnt, ns].  ns is the chain of mount-point directory   *)
(* entries from the file's mount outward: mount m (1..Len(ns)) is mounted  *)
(* on entry ns[m] of its parent mount m+1, and mount Len(ns)+1 is the      *)
(* global root mount, whose mount point is the root entry and whose parent *)
(* is itself.  Directory entries are named by strings; two levels naming   *)
(* the same entry share it (a bind mount of the parent's filesystem).      *)
(***************************************************************************)
RootDentry == "root"

\* dentry->d_name.name: the bytes of the entry's name
d_name(de) ==
    CASE de = "root"    -> <<47>>
      [] de = "a"       -> <<97>>
      [] de = "a_bis"   -> <<97>>
      [] de = "long"    -> [i \in 1..255 |-> 120]
      [] de = "proc"    -> <<112, 114, 111, 99>>
      [] de = "dev"     -> <<100, 101, 118>>
      [] de = "sys"     -> <<115, 121, 115>>
      [] de = "device"  -> <<100, 101, 118, 105, 99, 101>>
      [] de = "scratch" -> <<115, 99, 114, 97, 116, 99, 104>>
      [] de = "data"    -> <<100, 97, 116, 97>>
      [] de = "jobs"    -> <<106, 111, 98, 115>>

\* dentry->d_name.len
d_name_len(de) == Len(d_name(de))

\* dentry->d_parent: the root entry is its own parent
d_parent(de) == RootDentry

mnt_mountpoint(ns, m) == IF m <= Len(ns) THEN ns[m] ELSE RootDentry

\* a chain that ends with CycleMark has no root: the parent of its outermost
\* mount is the file's mount again
CycleMark == "cycle"

mnt_parent(ns, m) ==
    IF m < Len(ns) /\ ns[m + 1] = CycleMark THEN 1
    ELSE IF m <= Len(ns) THEN m + 1
    ELSE m

\* container_of(): the mount that embeds the vfsmount
real_mount(vfsmnt) == vfsmnt

IS_ROOT(dentry) == dentry = d_parent(dentry)

\* The scratch buffer buf[MAX_BUF_LEN + 256] of one CPU is kept as the bytes
\* from the lowest offset ever written up to MAX_BUF_LEN; every other byte
\* of the map value is still the zero it was created with.
BufByte(buf, o) ==
    IF o >= MAX_BUF_LEN \/ o < MAX_BUF_LEN - Len(buf) THEN 0
    ELSE buf[o - (MAX_BUF_LEN - Len(buf)) + 1]

\* buf with bytes written at offsets o .. o+Len(bytes)-1 (all below MAX_BUF_LEN):
\* what buf holds below o, the bytes, the zeroes between them and what buf
\* holds, and what buf holds from o+Len(bytes) on
WriteBytes(buf, o, bytes) ==
    IF bytes = <<>> THEN buf
    ELSE LET low == MAX_BUF_LEN - Len(buf)
             end == o + Len(bytes)
             before == IF o > low THEN SubSeq(buf, 1, o - low) ELSE <<>>
             gap == IF end < low THEN [i \in 1..(low - end) |-> 0] ELSE <<>>
             after == IF end > low THEN SubSeq(buf, end - low + 1, Len(buf)) ELSE buf
         IN  before \o bytes \o gap \o after

\* bpf_probe_read(dst, n, buf + o): n bytes of the scratch buffer from offset o
ReadBytes(buf, o, n) == [i \in 1..n |-> BufByte(buf, o + i - 1)]

\* the byte at name[i]: past the name lies its terminating NUL
NameByte(name, i) == IF i >= 0 /\ i < Len(name) THEN name[i + 1] ELSE 0

\* prepend_name with the room for the '/' left out of the new cursor: the
\* component lands one byte too high, over the '/' of the one before it
prepend_name_overlap(buf, bufptr, buflen, name, namelen) ==
    IF namelen < 0 \/ namelen > 256 \/ namelen >= buflen \/ namelen + 1 > bufptr
    THEN [err |-> 0 - ENAMETOOLONG, buf |-> buf, bufptr |-> bufptr, buflen |-> buflen]
    ELSE [err |-> 0,
          buf |-> WriteBytes(buf, bufptr - namelen,
                             <<47>> \o [i \in 1..(namelen - 1) |-> NameByte(name, i - 1)]),
          bufptr |-> bufptr - namelen,
          buflen |-> buflen - namelen]

\* bufptr is the cursor's offset from the start of buf
prepend_name(buf, bufptr, buflen, name, namelen) ==
    IF namelen < 0 \/ namelen > 256
    THEN [err |-> 0 - ENAMETOOLONG, buf |-> buf, bufptr |-> bufptr, buflen |-> buflen]
    ELSE LET cut == namelen >= buflen
             skip == IF cut THEN namelen - buflen ELSE 0
             nlen == IF cut THEN buflen ELSE namelen
             write_slash == IF cut THEN 0 ELSE 1
             buflen2 == buflen - (nlen + write_slash)
             buffer_offset == bufptr - (nlen + write_slash)
         IN  IF nlen + write_slash > bufptr
             THEN [err |-> 0 - ENAMETOOLONG, buf |-> buf, bufptr |-> bufptr,
                   buflen |-> buflen2]
             ELSE IF buffer_offset < 0 \/ buffer_offset >= MAX_BUF_LEN
             THEN [err |-> 0 - ENAMETOOLONG, buf |-> buf, bufptr |-> bufptr,
                   buflen |-> buflen2]
             ELSE LET copied == nlen % 256      \* namelen &= 0xff
                      slash == IF write_slash = 1 THEN <<47>> ELSE <<>>
                      bytes == [i \in 1..copied |-> NameByte(name, skip + i - 1)]
                  IN  [err |-> IF write_slash = 1 THEN 0 ELSE 0 - ENAMETOOLONG,
                       buf |-> WriteBytes(buf, buffer_offset, slash \o bytes),
                       bufptr |-> buffer_offset,
                       buflen |-> buflen2]

\* mnt_path_read from the return of prepend_name on: r is what the call left
\* in data->bptr, data->blen and the buffer, and its error
mnt_path_read_end(data, ns, curr_de, r) ==
    LET d2 == [data EXCEPT !.bf = r.buf, !.bptr = r.bufptr, !.blen = r.buflen]
    IN  IF r.err # 0
        THEN [ret |-> 1, data |-> d2]
        ELSE [ret |-> 0,
              data |-> [d2 EXCEPT !.prev_de = curr_de,
                                  !.mnt = mnt_parent(ns, data.mnt)]]

\* data is struct mnt_path_data with bf holding the buffer's content
mnt_path_read(data, ns) ==
    LET curr_de == <<mnt_mountpoint(ns, data.mnt)>>
    IN  IF curr_de = data.prev_de \/ IS_ROOT(curr_de[1])
        THEN [ret |-> 1, data |-> [data EXCEPT !.resolved = TRUE]]
        ELSE mnt_path_read_end(data, ns, curr_de,
                               prepend_name(data.bf, data.bptr, data.blen,
                                            d_name(curr_de[1]), d_name_len(curr_de[1])))

\* the loop of prepend_mnt_path (unrolled, or bpf_loop): rounds i .. 7.
\* mnt_path_next is the loop's test of the callback's result r of round i.
RECURSIVE mnt_path_loop(_, _, _)
RECURSIVE mnt_path_next(_, _, _)
mnt_path_next(r, ns, i) ==
    IF r.ret # 0 THEN r.data ELSE mnt_path_loop(r.data, ns, i + 1)

mnt_path_loop(data, ns, i) ==
    IF i >= PROBE_MNT_ITERATIONS THEN data
    ELSE mnt_path_next(mnt_path_read(data, ns), ns, i)

\* mnt_path_data with 256 for the remaining length, whatever buflen is
mnt_path_data_short(file, bf, buffer, buflen) ==
    [bf |-> bf, mnt |-> real_mount(file.f_path_mnt), prev_de |-> NULL,
     bptr |-> buffer, blen |-> 256, resolved |-> FALSE]

mnt_path_data(file, bf, buffer, buflen) ==
    [bf |-> bf, mnt |-> real_mount(file.f_path_mnt), prev_de |-> NULL,
     bptr |-> buffer, blen |-> buflen, resolved |-> FALSE]

\* prepend_mnt_path_end with the test of data.resolved lost
prepend_mnt_path_end_noerr(data, buffer) ==
    IF data.bptr = buffer
    THEN [error |-> 0, buffer |-> buffer, buflen |-> 0, bf |-> data.bf]
    ELSE [error |-> 0, buffer |-> data.bptr, buflen |-> data.blen, bf |-> data.bf]

\* what prepend_mnt_path returns and stores once the loop has left data
prepend_mnt_path_end(data, buffer) ==
    IF data.bptr = buffer
    THEN [error |-> 0, buffer |-> buffer, buflen |-> 0, bf |-> data.bf]
    ELSE [error |-> IF ~data.resolved THEN UNRESOLVED_PATH_COMPONENTS ELSE 0,
          buffer |-> data.bptr, buflen |-> data.blen, bf |-> data.bf]

prepend_mnt_path(file, bf, buffer, buflen) ==
    prepend_mnt_path_end(
        mnt_path_loop(mnt_path_data(file, bf, buffer, buflen), file.ns, 0), buffer)

\* __mnt_path_local: res = buf + *buflen
mnt_path_local_inner(file, bf, buflen) == prepend_mnt_path(file, bf, buflen, buflen)

\* the size stored by mnt_path_local from the remaining length
mnt_path_size(buflen) == IF buflen > 0 THEN MAX_BUF_LEN - buflen ELSE buflen

\* mnt_path_local once __mnt_path_local has returned r
mnt_path_local_end(r) ==
    [buffer |-> r.buffer, buflen |-> mnt_path_size(r.buflen),
     error |-> r.error, bf |-> r.bf]

\* bf is this CPU's slot of buffer_heap_map
mnt_path_local(file, bf) == mnt_path_local_end(mnt_path_local_inner(file, bf, MAX_BUF_LEN))

\* the bytes of the resolved path: buflen bytes from the returned pointer
PathOf(r) == ReadBytes(r.bf, r.buffer, r.buflen)

(***************************************************************************)
(* BPF map primitives.  A hash map is a function from the keys present to  *)
(* their values.  No map of the model comes near max_entries, so the LRU   *)
(* eviction of a full map is not part of these definitions.                *)
(***************************************************************************)

\* pointer to the element, or NULL
bpf_map_lookup_elem(map, key) == IF key \in DOMAIN map THEN <<key>> ELSE NULL

\* bpf_map_update_elem(map, key, value, BPF_NOEXIST): fails when key is present
bpf_map_update_elem(map, key, value) ==
    IF key \in DOMAIN map THEN map ELSE map @@ (key :> value)

\* __sync_fetch_and_add(&elem->field, v) through a pointer got from a lookup
sync_fetch_and_add(map, elem, field, v) ==
    IF elem[1] \in DOMAIN map
    THEN [map EXCEPT ![elem[1]][field] = Add64(@, v)]
    ELSE map

(***************************************************************************)
(* vfs/bpf_vfs.h                                                           *)
(***************************************************************************)

\* get_mnt_path_end with the path of an unfinished walk thrown away
get_mnt_path_end_strict(r) ==
    [mnt |-> IF r.error # 0 THEN [i \in 1..MAX_MOUNT_SIZE |-> 0]
             ELSE ReadBytes(r.bf, r.buffer, MAX_MOUNT_SIZE),
     size |-> r.buflen % 256,
     bf |-> r.bf]

\* get_mnt_path_end with key->mnt read from the last bytes of the buffer
get_mnt_path_end_tail(r) ==
    [mnt |-> ReadBytes(r.bf, MAX_BUF_LEN - MAX_MOUNT_SIZE, MAX_MOUNT_SIZE),
     size |-> r.buflen % 256,
     bf |-> r.bf]

\* get_mnt_path once mnt_path_local has returned r: the bpf_probe_read of
\* key->mnt and the size returned
get_mnt_path_end(r) ==
    [mnt |-> ReadBytes(r.bf, r.buffer, MAX_MOUNT_SIZE),
     size |-> r.buflen % 256,
     bf |-> r.bf]

\* key->mnt and the returned size of get_mnt_path; bf is the CPU's scratch slot
get_mnt_path(file, bf) == get_mnt_path_end(mnt_path_local(file, bf))

\* test_string is a NUL-terminated char array, string the key's mnt bytes
RECURSIVE is_substring_from(_, _, _, _)
is_substring_from(test_string, string, size, i) ==
    IF i >= size THEN 1
    ELSE IF test_string[i + 1] = 0 THEN 1
    ELSE IF test_string[i + 1] # string[i + 1] THEN 0
    ELSE is_substring_from(test_string, string, size, i + 1)

is_substring(test_string, string, size) == is_substring_from(test_string, string, size, 0)

dev_mnt == <<47, 100, 101, 118, 0>>          \* "/dev"
sys_mnt == <<47, 115, 121, 115, 0>>          \* "/sys"
proc_mnt == <<47, 112, 114, 111, 99, 0>>     \* "/proc"

\* ignore_mnt with the tests of sys_mnt and proc_mnt lost
ignore_mnt_devonly(mnt) ==
    IF is_substring(dev_mnt, mnt, Len(dev_mnt)) = 1 THEN 1 ELSE 0

\* every comparison is bounded by sizeof(dev_mnt)
ignore_mnt(mnt) ==
    IF is_substring(dev_mnt, mnt, Len(dev_mnt)) = 1 THEN 1
    ELSE IF is_substring(sys_mnt, mnt, Len(dev_mnt)) = 1 THEN 1
    ELSE IF is_substring(proc_mnt, mnt, Len(dev_mnt)) = 1 THEN 1
    ELSE 0

ZeroMnt == [i \in 1..MAX_MOUNT_SIZE |-> 0]

\* rw_event_mnt with the test of key.mnt[0] lost
rw_event_mnt_anypath(cid, p) ==
    [go |-> ignore_mnt(p.mnt) = 0,
     key |-> [cid |-> cid, mnt |-> p.mnt],
     bf |-> p.bf]

\* handle_rw_event between get_mnt_path, which returned p, and the lookup:
\* the tests of key.mnt[0] and ignore_mnt
rw_event_mnt(cid, p) ==
    [go |-> p.mnt[1] # 0 /\ ignore_mnt(p.mnt) = 0,
     key |-> [cid |-> cid, mnt |-> p.mnt],
     bf |-> p.bf]

\* the test of key.cid in handle_rw_event
rw_event_cid(cid, file, bf) ==
    IF cid = U32(0) \/ cid = U32(1)
    THEN [go |-> FALSE, key |-> [cid |-> cid, mnt |-> ZeroMnt], bf |-> bf]
    ELSE rw_event_mnt(cid, get_mnt_path(file, bf))

\* handle_rw_event up to the map lookup: the key, whether the event goes on
\* to the maps, and the scratch buffer as the invocation leaves it
rw_event_key(conf, task, file, bf) ==
    rw_event_cid(Trunc32(ceems_get_current_cgroup_id(conf, task)), file, bf)

\* a new_event of zeroes, the counts to be added to it afterwards
rw_new_event_zero(ret) == [bytes |-> Zero64, calls |-> Zero64, errors |-> Zero64]

\* struct vfs_rw_event new_event of handle_rw_event; ret is the __s64 ret of
\* the handler, ret < 0 the test of its bit 63 and (__u64)ret its 64 bits
rw_new_event(ret) ==
    IF ret[4] >= 32768
    THEN [bytes |-> Zero64, calls |-> U64(1), errors |-> U64(1)]
    ELSE [bytes |-> ret, calls |-> U64(1), errors |-> Zero64]

\* rw_add_result with the error branch lost: a failed call adds 0 bytes instead
rw_add_result_noerr(map, event, ret) ==
    sync_fetch_and_add(map, event, "bytes", IF ret[4] >= 32768 THEN Zero64 ELSE ret)

\* the second atomic add of handle_rw_event on a found element
rw_add_result(map, event, ret) ==
    IF ret[4] >= 32768
    THEN sync_fetch_and_add(map, event, "errors", U64(1))
    ELSE sync_fetch_and_add(map, event, "bytes", ret)

\* handle_rw_event from the lookup on, run without interruption on one map;
\* ret is the __s64 the program passed
rw_event_update(map, key, ret) ==
    LET event == bpf_map_lookup_elem(map, key)
    IN  IF event = NULL
        THEN bpf_map_update_elem(map, key, rw_new_event(ret))
        ELSE rw_add_result(sync_fetch_and_add(map, event, "calls", U64(1)), event, ret)

\* struct vfs_inode_event new_event of handle_inode_event
inode_new_event(ret) ==
    [calls |-> U64(1), errors |-> IF ret # 0 THEN U64(1) ELSE Zero64]

\* the second step of handle_inode_event on a found element
inode_add_result(map, event, ret) ==
    IF ret # 0 THEN sync_fetch_and_add(map, event, "errors", U64(1)) ELSE map

\* handle_inode_event from the lookup on, run without interruption on one map
inode_event_update(map, key, ret) ==
    LET event == bpf_map_lookup_elem(map, key)
    IN  IF event = NULL
        THEN bpf_map_update_elem(map, key, inode_new_event(ret))
        ELSE inode_add_result(sync_fetch_and_add(map, event, "calls", U64(1)), event, ret)

\* the map a mode selects, by name; "none" is the default: branch
rw_map_of(type) ==
    IF type = MODE_WRITE THEN "write"
    ELSE IF type = MODE_READ THEN "read"
    ELSE "none"

\* inode_map_of with mkdir and rmdir counted with the opens
inode_map_of_dirs_open(type) ==
    IF type = MODE_OPEN \/ type = MODE_MKDIR \/ type = MODE_RMDIR THEN "open"
    ELSE IF type = MODE_CREATE THEN "create"
    ELSE IF type = MODE_UNLINK THEN "unlink"
    ELSE "none"

inode_map_of(type) ==
    IF type = MODE_OPEN THEN "open"
    ELSE IF type = MODE_CREATE \/ type = MODE_MKDIR THEN "create"
    ELSE IF type = MODE_RMDIR \/ type = MODE_UNLINK THEN "unlink"
    ELSE "none"

(***************************************************************************)
(* lib/bpf_sock.h: connection tuple and delta statistics                   *)
(*                                                                         *)
(* A sock is a record of the kernel fields the programs read.  Addresses   *)
(* and the network-order ports are the bytes in memory; be tells whether   *)
(* the build is big-endian (__BYTE_ORDER__ == __ORDER_BIG_ENDIAN__), which *)
(* decides how a multi-byte load reads them and which branch of            *)
(* is_ipv4_mapped_ipv6 is compiled.                                        *)
(***************************************************************************)

\* a 2-byte load, as a number
Load16(b, be) == IF be THEN b[1] * 256 + b[2] ELSE b[1] + 256 * b[2]

\* a 4-byte load, as a __u32
Load32(b, be) ==
    IF be THEN <<b[4] + 256 * b[3], b[2] + 256 * b[1]>>
    ELSE <<b[1] + 256 * b[2], b[3] + 256 * b[4]>>

\* an 8-byte load, as a __u64
Load64(b, be) ==
    IF be THEN <<b[8] + 256 * b[7], b[6] + 256 * b[5], b[4] + 256 * b[3], b[2] + 256 * b[1]>>
    ELSE <<b[1] + 256 * b[2], b[3] + 256 * b[4], b[5] + 256 * b[6], b[7] + 256 * b[8]>>

\* bpf_ntohs: a byte swap on a little-endian build, nothing on a big-endian one
bpf_ntohs(x, be) == IF be THEN x ELSE (x % 256) * 256 + (x \div 256)

is_ipv4_mapped_ipv6(saddr_h, saddr_l, daddr_h, daddr_l, be) ==
    IF be
    THEN \/ saddr_h = Zero64 /\ Trunc32(Shr32(saddr_l)) = <<65535, 0>>   \* 0x0000FFFF
         \/ daddr_h = Zero64 /\ Trunc32(Shr32(daddr_l)) = <<65535, 0>>
    ELSE \/ saddr_h = Zero64 /\ Trunc32(saddr_l) = <<0, 65535>>          \* 0xFFFF0000
         \/ daddr_h = Zero64 /\ Trunc32(daddr_l) = <<0, 65535>>

\* read_in6_addr: the two 8-byte halves of a struct in6_addr
read_in6_addr(in6, be) ==
    [h |-> Load64(SubSeq(in6, 1, 8), be), l |-> Load64(SubSeq(in6, 9, 16), be)]

read_sport(skp, be) ==
    IF skp.skc_num = 0 THEN bpf_ntohs(Load16(skp.inet_sport, be), be) ELSE skp.skc_num

\* the second read is of the same field
read_dport(skp, be) == bpf_ntohs(Load16(skp.skc_dport, be), be)

read_saddr_v4(skp, be) ==
    IF Load32(skp.skc_rcv_saddr, be) = U32(0)
    THEN Load32(skp.inet_saddr, be)
    ELSE Load32(skp.skc_rcv_saddr, be)

\* the second read is of the same field
read_daddr_v4(skp, be) == Load32(skp.skc_daddr, be)

read_saddr_v6(skp, be) == read_in6_addr(skp.skc_v6_rcv_saddr, be)

read_daddr_v6(skp, be) == read_in6_addr(skp.skc_v6_daddr, be)

sk_family(skp) == skp.skc_family

ZeroTuple ==
    [saddr_h |-> Zero64, saddr_l |-> Zero64, daddr_h |-> Zero64, daddr_l |-> Zero64,
     sport |-> 0, dport |-> 0]

\* the ports of read_conn_tuple, read when still 0
read_conn_ports(t, skp, be) ==
    [t EXCEPT !.sport = IF @ = 0 THEN read_sport(skp, be) ELSE @,
              !.dport = IF @ = 0 THEN read_dport(skp, be) ELSE @]

\* the AF_INET6 rewrite of read_conn_tuple
map_ipv6_to_ipv4(t, be) ==
    IF is_ipv4_mapped_ipv6(t.saddr_h, t.saddr_l, t.daddr_h, t.daddr_l, be)
    THEN [t EXCEPT !.saddr_h = Zero64, !.daddr_h = Zero64,
                   !.saddr_l = Ext64(Trunc32(Shr32(t.saddr_l))),
                   !.daddr_l = Ext64(Trunc32(Shr32(t.daddr_l)))]
    ELSE t

\* case AF_INET of read_conn_tuple: the addresses, read when still 0
read_conn_tuple_v4(t, skp, be) ==
    [t EXCEPT !.saddr_l = IF @ = Zero64 THEN Ext64(read_saddr_v4(skp, be)) ELSE @,
              !.daddr_l = IF @ = Zero64 THEN Ext64(read_daddr_v4(skp, be)) ELSE @]

\* the test that follows them: err is 1 where the code sets err = 1
check_tuple_v4(t4) ==
    [err |-> IF t4.saddr_l = Zero64 \/ t4.daddr_l = Zero64 THEN 1 ELSE 0, t |-> t4]

\* case AF_INET6 of read_conn_tuple: both halves of an address read when both are 0
read_conn_tuple_v6(t, skp, be) ==
    LET s6 == IF t.saddr_h = Zero64 /\ t.saddr_l = Zero64
              THEN read_saddr_v6(skp, be) ELSE [h |-> t.saddr_h, l |-> t.saddr_l]
        d6 == IF t.daddr_h = Zero64 /\ t.daddr_l = Zero64
              THEN read_daddr_v6(skp, be) ELSE [h |-> t.daddr_h, l |-> t.daddr_l]
    IN  [t EXCEPT !.saddr_h = s6.h, !.saddr_l = s6.l,
                  !.daddr_h = d6.h, !.daddr_l = d6.l]

\* the tests that follow them, then the rewrite of mapped addresses
check_tuple_v6(t6, be) ==
    [err |-> IF \/ (t6.saddr_h = Zero64 /\ t6.saddr_l = Zero64)
                \/ (t6.daddr_h = Zero64 /\ t6.daddr_l = Zero64)
             THEN 1 ELSE 0,
     t |-> map_ipv6_to_ipv4(t6, be)]

\* the switch on the family
read_conn_addrs(t, skp, be) ==
    IF sk_family(skp) = AF_INET THEN check_tuple_v4(read_conn_tuple_v4(t, skp, be))
    ELSE IF sk_family(skp) = AF_INET6 THEN check_tuple_v6(read_conn_tuple_v6(t, skp, be), be)
    ELSE [err |-> 1, t |-> t]

\* the test of the ports tp has got; err is that of the addresses
check_tuple_ports(err, tp) ==
    [err |-> IF tp.sport = 0 \/ tp.dport = 0 THEN 1 ELSE err, t |-> tp]

\* the ports follow the addresses, whatever err the addresses gave
read_conn_tuple_end(addr, skp, be) ==
    check_tuple_ports(addr.err, read_conn_ports(addr.t, skp, be))

\* [err, t]: the return value and the tuple as read_conn_tuple leaves it
read_conn_tuple(t, skp, be) == read_conn_tuple_end(read_conn_addrs(t, skp, be), skp, be)

ZeroStats ==
    [packets_in |-> Zero64, packets_out |-> Zero64, bytes_received |-> Zero64,
     bytes_sent |-> Zero64, total_retrans |-> Zero64, bytes_retrans |-> Zero64]

\* the socket's cumulative counters, the __u32 ones cast to __u64
sock_counters(skp) ==
    [packets_in |-> Ext64(skp.segs_in), packets_out |-> Ext64(skp.segs_out),
     bytes_received |-> skp.bytes_received, bytes_sent |-> skp.bytes_sent,
     total_retrans |-> Ext64(skp.total_retrans), bytes_retrans |-> skp.bytes_retrans]

\* conn_stats_delta with the subtraction lost: the cumulative counters again
conn_stats_delta_cumulative(cur, stats) == cur

\* incr_stats of read_conn_stats for a tuple found in socket_accumulator
conn_stats_delta(cur, stats) ==
    [packets_in |-> Sub64(cur.packets_in, stats.packets_in),
     packets_out |-> Sub64(cur.packets_out, stats.packets_out),
     bytes_received |-> Sub64(cur.bytes_received, stats.bytes_received),
     bytes_sent |-> Sub64(cur.bytes_sent, stats.bytes_sent),
     total_retrans |-> Sub64(cur.total_retrans, stats.total_retrans),
     bytes_retrans |-> Sub64(cur.bytes_retrans, stats.bytes_retrans)]

\* read_conn_stats_end with the return value of read_conn_tuple ignored
read_conn_stats_end_anyway(map, skp, tr) ==
    IF bpf_map_lookup_elem(map, tr.t) = NULL
    THEN [err |-> 0, incr_stats |-> sock_counters(skp),
          map |-> bpf_map_update_elem(map, tr.t, sock_counters(skp)), t |-> tr.t]
    ELSE [err |-> 0, incr_stats |-> conn_stats_delta(sock_counters(skp), map[tr.t]),
          map |-> [map EXCEPT ![tr.t] = sock_counters(skp)], t |-> tr.t]

\* read_conn_stats_end yielding nothing for a tuple it does not find
read_conn_stats_end_baseline_only(map, skp, tr) ==
    IF tr.err # 0
    THEN [err |-> 1, incr_stats |-> ZeroStats, map |-> map, t |-> tr.t]
    ELSE IF bpf_map_lookup_elem(map, tr.t) = NULL
    THEN [err |-> 0, incr_stats |-> ZeroStats,
          map |-> bpf_map_update_elem(map, tr.t, sock_counters(skp)), t |-> tr.t]
    ELSE [err |-> 0, incr_stats |-> conn_stats_delta(sock_counters(skp), map[tr.t]),
          map |-> [map EXCEPT ![tr.t] = sock_counters(skp)], t |-> tr.t]

\* read_conn_stats once read_conn_tuple has returned tr
read_conn_stats_end(map, skp, tr) ==
    IF tr.err # 0
    THEN [err |-> 1, incr_stats |-> ZeroStats, map |-> map, t |-> tr.t]
    ELSE IF bpf_map_lookup_elem(map, tr.t) = NULL
    THEN [err |-> 0, incr_stats |-> sock_counters(skp),
          map |-> bpf_map_update_elem(map, tr.t, sock_counters(skp)), t |-> tr.t]
    ELSE [err |-> 0, incr_stats |-> conn_stats_delta(sock_counters(skp), map[tr.t]),
          map |-> [map EXCEPT ![tr.t] = sock_counters(skp)], t |-> tr.t]

\* [err, incr_stats, map, t]: map is socket_accumulator as the call leaves it
read_conn_stats(map, skp, be) ==
    read_conn_stats_end(map, skp, read_conn_tuple(ZeroTuple, skp, be))

(***************************************************************************)
(* network/bpf_network.h                                                   *)
(***************************************************************************)

\* handle_ingress_event, handle_egress_event and handle_retrans_event are the
\* same code on their own map and their own pair of conn_stats fields
net_event_update(map, key, packets, bytes) ==
    LET net_stats == bpf_map_lookup_elem(map, key)
    IN  IF net_stats = NULL
        THEN bpf_map_update_elem(map, key, [packets |-> packets, bytes |-> bytes])
        ELSE IF Lt64(Zero64, packets)
        THEN sync_fetch_and_add(sync_fetch_and_add(map, net_stats, "bytes", bytes),
                                net_stats, "packets", packets)
        ELSE map

handle_ingress_event(map, key, stats) ==
    net_event_update(map, key, stats.packets_in, stats.bytes_received)

handle_egress_event(map, key, stats) ==
    net_event_update(map, key, stats.packets_out, stats.bytes_sent)

handle_retrans_event(map, key, stats) ==
    net_event_update(map, key, stats.total_retrans, stats.bytes_retrans)

\* udp_event_update that counts no packet on a record it finds
udp_event_update_bytes_only(map, key, bytes) ==
    LET stats == bpf_map_lookup_elem(map, key)
    IN  IF stats = NULL
        THEN bpf_map_update_elem(map, key, [packets |-> U64(1), bytes |-> bytes])
        ELSE sync_fetch_and_add(map, stats, "bytes", bytes)

\* handle_udp_event from the lookup on, on the map its mode selects
udp_event_update(map, key, bytes) ==
    LET stats == bpf_map_lookup_elem(map, key)
    IN  IF stats = NULL
        THEN bpf_map_update_elem(map, key, [packets |-> U64(1), bytes |-> bytes])
        ELSE sync_fetch_and_add(sync_fetch_and_add(map, stats, "packets", U64(1)),
                                stats, "bytes", bytes)

net_map_of(type) ==
    IF type = MODE_INGRESS THEN "ingress"
    ELSE IF type = MODE_EGRESS THEN "egress"
    ELSE "none"

(***************************************************************************)
(* State                                                                   *)
(***************************************************************************)
VARIABLES
    big_endian,             \* the build's byte order
    conf_map,               \* <<>> or <<struct conf>>
    buffer_heap_map,        \* per-CPU scratch buffer: cpu -> bytes
    write_accumulator, read_accumulator,
    open_accumulator, create_accumulator, unlink_accumulator,
    ingress_accumulator, egress_accumulator, retrans_accumulator,
    socket_accumulator,     \* conn_event -> last cumulative conn_stats
    socks,                  \* the kernel's sockets: name -> struct sock
    pc, frame,              \* per CPU: position in a running program, its locals
    walk,                   \* a mount walk in progress, round by round
    conn,                   \* a socket and the tuple read from it
    last,                   \* history: the last invocation and what it saw
    hist,                   \* history: per map and key, the events applied to it
    nev                     \* history: number of invocations so far

vfs_maps == <<write_accumulator, read_accumulator, open_accumulator,
              create_accumulator, unlink_accumulator>>
net_maps == <<ingress_accumulator, egress_accumulator, retrans_accumulator>>
maps == <<vfs_maps, net_maps, socket_accumulator>>
vars == <<big_endian, conf_map, buffer_heap_map, maps, socks, pc, frame, walk, conn,
          last, hist, nev>>

(***************************************************************************)
(* Bounds and input sets                                                   *)
(***************************************************************************)
NCpus == 2
MaxEvents == 2
MaxVfsEvents == 2
MaxNetEvents == 3

Cpus == 1..NCpus
EmptyMap == <<>>

Confs == {NULL, ConfV1, ConfV2}

\* tasks of a job's cgroup, of the root cgroup, and one whose css_set is unreadable
Tasks == {TaskInCgroup(U64(42)), TaskInCgroup(U64(1)), TaskNoCssSet(U64(42))}

File(ns) == [f_path_mnt |-> 1, ns |-> ns]
Files == {File(<<>>), File(<<"scratch">>), File(<<"proc">>)}

RwRets == {0 - 1, 0, 100}
InodeRets == {0 - 2, 0, 3}
UdpRets == {0 - 1, 0, 100}

IPv4Sock(saddr, daddr, sport, dport) ==
    [skc_family |-> AF_INET,
     skc_rcv_saddr |-> saddr, inet_saddr |-> saddr, skc_daddr |-> daddr,
     skc_v6_rcv_saddr |-> [i \in 1..16 |-> 0], skc_v6_daddr |-> [i \in 1..16 |-> 0],
     skc_num |-> sport, inet_sport |-> <<sport \div 256, sport % 256>>,
     skc_dport |-> <<dport \div 256, dport % 256>>]

\* the IPv4-mapped form ::ffff:a.b.c.d of an IPv4 address
Mapped(addr) == <<0, 0, 0, 0, 0, 0, 0, 0, 0, 0, 255, 255>> \o addr

IPv6Sock(saddr6, daddr6, sport, dport) ==
    [skc_family |-> AF_INET6,
     skc_rcv_saddr |-> <<0, 0, 0, 0>>, inet_saddr |-> <<0, 0, 0, 0>>,
     skc_daddr |-> <<0, 0, 0, 0>>,
     skc_v6_rcv_saddr |-> saddr6, skc_v6_daddr |-> daddr6,
     skc_num |-> sport, inet_sport |-> <<sport \div 256, sport % 256>>,
     skc_dport |-> <<dport \div 256, dport % 256>>]

\* the TCP counters of struct tcp_sock
Counters(segs_in, segs_out, bytes_received, bytes_sent, total_retrans, bytes_retrans) ==
    [segs_in |-> U32(segs_in), segs_out |-> U32(segs_out),
     bytes_received |-> U64(bytes_received), bytes_sent |-> U64(bytes_sent),
     total_retrans |-> U32(total_retrans), bytes_retrans |-> U64(bytes_retrans)]

CounterSet == {Counters(10, 4, 20, 8, 0, 0),
               Counters(15, 4, 20, 9, 1, 3),
               Counters(12, 5, 20, 9, 1, 3)}

CounterFields == {"segs_in", "segs_out", "bytes_received", "bytes_sent",
                  "total_retrans", "bytes_retrans"}

StatFields == {"packets_in", "packets_out", "bytes_received", "bytes_sent",
               "total_retrans", "bytes_retrans"}

\* struct sock followed by the counters of its struct tcp_sock
WithCounters(sk, c) ==
    [f \in (DOMAIN sk) \cup CounterFields |-> IF f \in CounterFields THEN c[f] ELSE sk[f]]

\* the one TCP connection of the model: 10.0.0.1:4000 -> 10.0.0.2:80
TcpSock == IPv4Sock(<<10, 0, 0, 1>>, <<10, 0, 0, 2>>, 4000, 80)

SockNames == {"tcp1"}

NoLast ==
    [kind |-> "none", cgid |-> Zero64, type |-> 0, ret |-> 0, fam |-> 0,
     go |-> FALSE, found |-> FALSE, key |-> <<>>,
     stored |-> ZeroStats, cur |-> ZeroStats, incr |-> ZeroStats]

NoTally == [bytes |-> 0, calls |-> 0, errors |-> 0]

(***************************************************************************)
(* Spec: the programs run one invocation at a time, each to completion     *)
(***************************************************************************)
NoFrame == [key |-> <<>>, ret |-> 0, type |-> 0, event |-> NULL, map |-> "none"]
NoWalk == [phase |-> "off"]
NoConn == [phase |-> "off"]

HistId(name, cid, mnt) == [map |-> name, cid |-> cid, mnt |-> mnt]

\* hist with one more event of return value ret (error: negative) counted for id
Tally(h, id, ret, isError) ==
    LET old == IF id \in DOMAIN h THEN h[id] ELSE NoTally
        new == [bytes |-> old.bytes + (IF ret > 0 THEN ret ELSE 0),
                calls |-> old.calls + 1,
                errors |-> old.errors + (IF isError THEN 1 ELSE 0)]
    IN  [x \in (DOMAIN h) \cup {id} |-> IF x = id THEN new ELSE h[x]]

InitMaps ==
    /\ write_accumulator = EmptyMap /\ read_accumulator = EmptyMap
    /\ open_accumulator = EmptyMap /\ create_accumulator = EmptyMap
    /\ unlink_accumulator = EmptyMap
    /\ ingress_accumulator = EmptyMap /\ egress_accumulator = EmptyMap
    /\ retrans_accumulator = EmptyMap
    /\ socket_accumulator = EmptyMap

InitBase(be, confs, counters) ==
    /\ big_endian \in be
    /\ conf_map \in confs
    /\ buffer_heap_map = [c \in Cpus |-> <<>>]
    /\ InitMaps
    /\ socks = [s \in SockNames |-> WithCounters(TcpSock, counters)]
    /\ pc = [c \in Cpus |-> "idle"]
    /\ frame = [c \in Cpus |-> NoFrame]
    /\ last = NoLast
    /\ hist = EmptyMap
    /\ nev = 0

InitWith(be, confs, counters) ==
    /\ InitBase(be, confs, counters)
    /\ walk = NoWalk
    /\ conn = NoConn

\* fexit/vfs_read, fexit/vfs_write and their readv/writev twins: handle_rw_event
RwEvent(cpu, task, file, ret, type) ==
    \E k \in {rw_event_key(conf_map, task, file, buffer_heap_map[cpu])} :
    LET cgid == ceems_get_current_cgroup_id(conf_map, task)
        name == rw_map_of(type)
        go == k.go /\ name # "none"
        map == IF name = "write" THEN write_accumulator ELSE read_accumulator
    IN  /\ buffer_heap_map' = [buffer_heap_map EXCEPT ![cpu] = k.bf]
        /\ write_accumulator' = IF go /\ name = "write"
                                THEN rw_event_update(write_accumulator, k.key, S64(ret))
                                ELSE write_accumulator
        /\ read_accumulator' = IF go /\ name = "read"
                               THEN rw_event_update(read_accumulator, k.key, S64(ret))
                               ELSE read_accumulator
        /\ last' = [NoLast EXCEPT !.kind = "rw", !.cgid = cgid, !.type = type,
                                  !.ret = ret, !.go = go, !.key = k.key,
                                  !.found = go /\ k.key \in DOMAIN map]
        /\ hist' = IF go THEN Tally(hist, HistId(name, k.key.cid, k.key.mnt), ret, ret < 0)
                   ELSE hist
        /\ nev' = nev + 1
        /\ UNCHANGED <<big_endian, conf_map, open_accumulator, create_accumulator,
                       unlink_accumulator, net_maps, socket_accumulator, socks,
                       pc, frame, walk, conn>>

\* fexit/vfs_open, vfs_create, vfs_mkdir, vfs_unlink, vfs_rmdir: handle_inode_event
InodeEvent(task, ret, type) ==
    LET cgid == ceems_get_current_cgroup_id(conf_map, task)
        key == Trunc32(cgid)
        name == inode_map_of(type)
        go == ~(key = U32(0) \/ key = U32(1)) /\ name # "none"
        map == IF name = "open" THEN open_accumulator
               ELSE IF name = "create" THEN create_accumulator
               ELSE unlink_accumulator
    IN  /\ open_accumulator' = IF go /\ name = "open"
                               THEN inode_event_update(open_accumulator, key, ret)
                               ELSE open_accumulator
        /\ create_accumulator' = IF go /\ name = "create"
                                 THEN inode_event_update(create_accumulator, key, ret)
                                 ELSE create_accumulator
        /\ unlink_accumulator' = IF go /\ name = "unlink"
                                 THEN inode_event_update(unlink_accumulator, key, ret)
                                 ELSE unlink_accumulator
        /\ last' = [NoLast EXCEPT !.kind = "inode", !.cgid = cgid, !.type = type,
                                  !.ret = ret, !.go = go, !.key = key,
                                  !.found = go /\ key \in DOMAIN map]
        /\ hist' = IF go THEN Tally(hist, HistId(name, key, <<>>), 0, ret # 0) ELSE hist
        /\ nev' = nev + 1
        /\ UNCHANGED <<big_endian, conf_map, buffer_heap_map, write_accumulator,
                       read_accumulator, net_maps, socket_accumulator, socks,
                       pc, frame, walk, conn>>

\* handle_tcp_event(skp): skp is the socket as the probe reads of this
\* invocation see it
TcpEventOn(task, skp) ==
    \E r \in {read_conn_stats(socket_accumulator, skp, big_endian)} :
    LET cgid == ceems_get_current_cgroup_id(conf_map, task)
        key == [cid |-> Trunc32(cgid), proto |-> IPPROTO_TCP, fam |-> sk_family(skp)]
        go == key.cid # U32(0) /\ r.err = 0
        found == r.t \in DOMAIN socket_accumulator
    IN  /\ socket_accumulator' = IF go THEN r.map ELSE socket_accumulator
        /\ ingress_accumulator' = IF go
                                  THEN handle_ingress_event(ingress_accumulator, key, r.incr_stats)
                                  ELSE ingress_accumulator
        /\ egress_accumulator' = IF go
                                 THEN handle_egress_event(egress_accumulator, key, r.incr_stats)
                                 ELSE egress_accumulator
        /\ retrans_accumulator' = IF go
                                  THEN handle_retrans_event(retrans_accumulator, key, r.incr_stats)
                                  ELSE retrans_accumulator
        /\ last' = [NoLast EXCEPT !.kind = "tcp", !.cgid = cgid, !.fam = key.fam,
                                  !.go = go, !.key = r.t, !.found = go /\ found,
                                  !.stored = IF go /\ found THEN socket_accumulator[r.t]
                                             ELSE ZeroStats,
                                  !.cur = sock_counters(skp),
                                  !.incr = IF go THEN r.incr_stats ELSE ZeroStats]
        /\ nev' = nev + 1
        /\ UNCHANGED <<big_endian, conf_map, buffer_heap_map, vfs_maps, socks,
                       pc, frame, walk, hist>>

\* fexit/tcp_sendmsg, tcp_sendpage, tcp_recvmsg: handle_tcp_event
TcpEvent(task, s) ==
    /\ TcpEventOn(task, socks[s])
    /\ UNCHANGED conn

\* fexit/udp_sendmsg, udpv6_sendmsg, udp_recvmsg, udpv6_recvmsg: handle_udp_event
UdpEvent(task, ret, family, type) ==
    LET cgid == ceems_get_current_cgroup_id(conf_map, task)
        key == [cid |-> Trunc32(cgid), proto |-> IPPROTO_UDP, fam |-> family]
        name == net_map_of(type)
        go == ret > 0 /\ key.cid # U32(0) /\ name # "none"
    IN  /\ ingress_accumulator' = IF go /\ name = "ingress"
                                  THEN udp_event_update(ingress_accumulator, key, U64(ret))
                                  ELSE ingress_accumulator
        /\ egress_accumulator' = IF go /\ name = "egress"
                                 THEN udp_event_update(egress_accumulator, key, U64(ret))
                                 ELSE egress_accumulator
        /\ last' = [NoLast EXCEPT !.kind = "udp", !.cgid = cgid, !.type = type,
                                  !.ret = ret, !.fam = family, !.go = go, !.key = key]
        /\ nev' = nev + 1
        /\ UNCHANGED <<big_endian, conf_map, buffer_heap_map, vfs_maps,
                       retrans_accumulator, socket_accumulator, socks,
                       pc, frame, walk, conn, hist>>

\* the kernel moves traffic on a connection: its counters grow
SockTraffic(s, c) ==
    /\ \A f \in StatFields : Leq64(sock_counters(socks[s])[f], sock_counters(c)[f])
    /\ socks[s] # WithCounters(socks[s], c)
    /\ socks' = [socks EXCEPT ![s] = WithCounters(@, c)]
    /\ last' = [NoLast EXCEPT !.kind = "traffic"]
    /\ UNCHANGED <<big_endian, conf_map, buffer_heap_map, maps, pc, frame, walk, conn,
                   hist, nev>>

\* the connection is closed and a new socket has the same addresses and ports:
\* its counters started again from zero
SockReuse(s, c) ==
    /\ \E f \in CounterFields : socks[s][f] # c[f]
    /\ socks' = [socks EXCEPT ![s] = WithCounters(@, c)]
    /\ last' = [NoLast EXCEPT !.kind = "reuse"]
    /\ UNCHANGED <<big_endian, conf_map, buffer_heap_map, maps, pc, frame, walk, conn,
                   hist, nev>>

VfsEvents ==
    \/ \E cpu \in {1}, task \in Tasks, file \in Files, ret \in RwRets,
          type \in {MODE_READ, MODE_WRITE} : RwEvent(cpu, task, file, ret, type)
    \/ \E task \in Tasks, ret \in InodeRets,
          type \in {MODE_OPEN, MODE_CREATE, MODE_MKDIR, MODE_UNLINK, MODE_RMDIR} :
          InodeEvent(task, ret, type)

NetEvents ==
    \/ \E task \in Tasks, s \in SockNames : TcpEvent(task, s)
    \/ \E task \in Tasks, ret \in UdpRets, family \in {AF_INET, AF_INET6},
          type \in {MODE_INGRESS, MODE_EGRESS} : UdpEvent(task, ret, family, type)

SockEvents ==
    \/ \E s \in SockNames, c \in CounterSet : SockTraffic(s, c)
    \/ \E s \in SockNames, c \in CounterSet : SockReuse(s, c)

\* every program, one invocation at a time on one CPU, around a connection
\* that has moved some traffic
Init == InitWith({FALSE}, Confs, Counters(10, 4, 20, 8, 0, 0))
Next ==
    \/ nev < MaxEvents /\ VfsEvents
    \/ nev < MaxEvents /\ NetEvents
Spec == Init /\ [][Next]_vars

\* the VFS programs alone
InitVfs == InitWith({FALSE}, Confs, Counters(0, 0, 0, 0, 0, 0))
NextVfs == nev < MaxVfsEvents /\ VfsEvents
SpecVfs == InitVfs /\ [][NextVfs]_vars

\* the network programs alone, around a new connection whose counters move
InitNet == InitWith(BOOLEAN, {ConfV2}, Counters(0, 0, 0, 0, 0, 0))
NextNet ==
    \/ nev < MaxNetEvents /\ NetEvents
    \/ SockEvents
SpecNet == InitNet /\ [][NextNet]_vars

(***************************************************************************)
(* handle_rw_event and handle_inode_event on several CPUs at once.  An     *)
(* invocation runs to completion on its CPU; between two of its map        *)
(* operations (lookup, insert, atomic add) the other CPUs may run theirs.  *)
(* pc[cpu] is the next map operation of the invocation on cpu and          *)
(* frame[cpu] its locals.                                                  *)
(***************************************************************************)
MaxConcEvents == 3

ConcTasks == {TaskInCgroup(U64(42)), TaskInCgroup(U64(1))}
ConcFiles == {File(<<"scratch">>)}
ConcRwRets == {0 - 1, 100}
ConcInodeRets == {0 - 2, 0}

VfsMap(name) ==
    CASE name = "write" -> write_accumulator
      [] name = "read" -> read_accumulator
      [] name = "open" -> open_accumulator
      [] name = "create" -> create_accumulator
      [] name = "unlink" -> unlink_accumulator

\* map name becomes m, the other vfs maps stay
SetVfsMap(name, m) ==
    /\ write_accumulator' = IF name = "write" THEN m ELSE write_accumulator
    /\ read_accumulator' = IF name = "read" THEN m ELSE read_accumulator
    /\ open_accumulator' = IF name = "open" THEN m ELSE open_accumulator
    /\ create_accumulator' = IF name = "create" THEN m ELSE create_accumulator
    /\ unlink_accumulator' = IF name = "unlink" THEN m ELSE unlink_accumulator

ConcRest == <<big_endian, conf_map, net_maps, socket_accumulator, socks, walk, conn, last>>

\* handle_rw_event from entry to just before the lookup
RwStart(cpu, task, file, ret, type) ==
    \E k \in {rw_event_key(conf_map, task, file, buffer_heap_map[cpu])} :
    LET name == rw_map_of(type)
        go == k.go /\ name # "none"
    IN  /\ pc[cpu] = "idle"
        /\ buffer_heap_map' = [buffer_heap_map EXCEPT ![cpu] = k.bf]
        /\ pc' = [pc EXCEPT ![cpu] = IF go THEN "rw_lookup" ELSE "idle"]
        /\ frame' = [frame EXCEPT ![cpu] =
                        IF go THEN [key |-> k.key, ret |-> ret, type |-> type,
                                    event |-> NULL, map |-> name]
                        ELSE NoFrame]
        /\ hist' = IF go THEN Tally(hist, HistId(name, k.key.cid, k.key.mnt), ret, ret < 0)
                   ELSE hist
        /\ nev' = nev + 1
        /\ UNCHANGED <<vfs_maps, ConcRest>>

\* event = bpf_map_lookup_elem(&write_accumulator or &read_accumulator, &key)
RwLookup(cpu) ==
    LET event == bpf_map_lookup_elem(VfsMap(frame[cpu].map), frame[cpu].key)
    IN  /\ pc[cpu] = "rw_lookup"
        /\ frame' = [frame EXCEPT ![cpu].event = event]
        /\ pc' = [pc EXCEPT ![cpu] = IF event = NULL THEN "rw_insert" ELSE "rw_add_calls"]
        /\ UNCHANGED <<vfs_maps, buffer_heap_map, hist, nev, ConcRest>>

\* the !event branch: bpf_map_update_elem(..., BPF_NOEXIST), then return 0
RwInsert(cpu) ==
    /\ pc[cpu] = "rw_insert"
    /\ SetVfsMap(frame[cpu].map,
                 bpf_map_update_elem(VfsMap(frame[cpu].map), frame[cpu].key,
                                     rw_new_event(S64(frame[cpu].ret))))
    /\ pc' = [pc EXCEPT ![cpu] = "idle"]
    /\ frame' = [frame EXCEPT ![cpu] = NoFrame]
    /\ UNCHANGED <<buffer_heap_map, hist, nev, ConcRest>>

\* RwAddCalls without the addition: the error is counted, the call is not
RwAddCalls_skipped(cpu) ==
    /\ pc[cpu] = "rw_add_calls"
    /\ pc' = [pc EXCEPT ![cpu] = "rw_add_result"]
    /\ UNCHANGED <<vfs_maps, frame, buffer_heap_map, hist, nev, ConcRest>>

\* __sync_fetch_and_add(&event->calls, 1)
RwAddCalls(cpu) ==
    /\ pc[cpu] = "rw_add_calls"
    /\ SetVfsMap(frame[cpu].map,
                 sync_fetch_and_add(VfsMap(frame[cpu].map), frame[cpu].event, "calls", U64(1)))
    /\ pc' = [pc EXCEPT ![cpu] = "rw_add_result"]
    /\ UNCHANGED <<frame, buffer_heap_map, hist, nev, ConcRest>>

\* __sync_fetch_and_add of errors or bytes, then return 0
RwAddResult(cpu) ==
    /\ pc[cpu] = "rw_add_result"
    /\ SetVfsMap(frame[cpu].map,
                 rw_add_result(VfsMap(frame[cpu].map), frame[cpu].event,
                               S64(frame[cpu].ret)))
    /\ pc' = [pc EXCEPT ![cpu] = "idle"]
    /\ frame' = [frame EXCEPT ![cpu] = NoFrame]
    /\ UNCHANGED <<buffer_heap_map, hist, nev, ConcRest>>

\* handle_inode_event from entry to just before the lookup
InodeStart(cpu, task, ret, type) ==
    LET key == Trunc32(ceems_get_current_cgroup_id(conf_map, task))
        name == inode_map_of(type)
        go == ~(key = U32(0) \/ key = U32(1)) /\ name # "none"
    IN  /\ pc[cpu] = "idle"
        /\ pc' = [pc EXCEPT ![cpu] = IF go THEN "inode_lookup" ELSE "idle"]
        /\ frame' = [frame EXCEPT ![cpu] =
                        IF go THEN [key |-> key, ret |-> ret, type |-> type,
                                    event |-> NULL, map |-> name]
                        ELSE NoFrame]
        /\ hist' = IF go THEN Tally(hist, HistId(name, key, <<>>), 0, ret # 0) ELSE hist
        /\ nev' = nev + 1
        /\ UNCHANGED <<vfs_maps, buffer_heap_map, ConcRest>>

\* event = bpf_map_lookup_elem(&open_/create_/unlink_accumulator, &key)
InodeLookup(cpu) ==
    LET event == bpf_map_lookup_elem(VfsMap(frame[cpu].map), frame[cpu].key)
    IN  /\ pc[cpu] = "inode_lookup"
        /\ frame' = [frame EXCEPT ![cpu].event = event]
        /\ pc' = [pc EXCEPT ![cpu] = IF event = NULL THEN "inode_insert"
                                     ELSE "inode_add_calls"]
        /\ UNCHANGED <<vfs_maps, buffer_heap_map, hist, nev, ConcRest>>

\* the !event branch: bpf_map_update_elem(..., BPF_NOEXIST), then return 0
InodeInsert(cpu) ==
    /\ pc[cpu] = "inode_insert"
    /\ SetVfsMap(frame[cpu].map,
                 bpf_map_update_elem(VfsMap(frame[cpu].map), frame[cpu].key,
                                     inode_new_event(frame[cpu].ret)))
    /\ pc' = [pc EXCEPT ![cpu] = "idle"]
    /\ frame' = [frame EXCEPT ![cpu] = NoFrame]
    /\ UNCHANGED <<buffer_heap_map, hist, nev, ConcRest>>

\* __sync_fetch_and_add(&event->calls, 1)
InodeAddCalls(cpu) ==
    /\ pc[cpu] = "inode_add_calls"
    /\ SetVfsMap(frame[cpu].map,
                 sync_fetch_and_add(VfsMap(frame[cpu].map), frame[cpu].event, "calls", U64(1)))
    /\ pc' = [pc EXCEPT ![cpu] = "inode_add_result"]
    /\ UNCHANGED <<frame, buffer_heap_map, hist, nev, ConcRest>>

\* if (ret) __sync_fetch_and_add(&event->errors, 1), then return 0
InodeAddResult(cpu) ==
    /\ pc[cpu] = "inode_add_result"
    /\ SetVfsMap(frame[cpu].map,
                 inode_add_result(VfsMap(frame[cpu].map), frame[cpu].event, frame[cpu].ret))
    /\ pc' = [pc EXCEPT ![cpu] = "idle"]
    /\ frame' = [frame EXCEPT ![cpu] = NoFrame]
    /\ UNCHANGED <<buffer_heap_map, hist, nev, ConcRest>>

InitConc == InitWith({FALSE}, {ConfV2}, Counters(0, 0, 0, 0, 0, 0))

NextConc ==
    \E cpu \in Cpus :
        \/ /\ nev < MaxConcEvents
           /\ \E task \in ConcTasks, file \in ConcFiles, ret \in ConcRwRets,
                 type \in {MODE_READ, MODE_WRITE} :
                 RwStart(cpu, task, file, ret, type)
        \/ RwLookup(cpu)
        \/ RwInsert(cpu)
        \/ RwAddCalls(cpu)
        \/ RwAddResult(cpu)
        \/ /\ nev < MaxConcEvents
           /\ \E task \in ConcTasks, ret \in ConcInodeRets,
                 type \in {MODE_OPEN, MODE_CREATE, MODE_UNLINK} :
                 InodeStart(cpu, task, ret, type)
        \/ InodeLookup(cpu)
        \/ InodeInsert(cpu)
        \/ InodeAddCalls(cpu)
        \/ InodeAddResult(cpu)

SpecConc == InitConc /\ [][NextConc]_vars

(***************************************************************************)
(* The mount-path resolver on its own: mnt_path_local applied to a file    *)
(* whose mount lies under a chain of mounts.  A chain lists the mounts'    *)
(* mount-point entries from the file's mount outwards; "a" and "a_bis" are *)
(* two entries of the same name, "long" has a name of 255 bytes.           *)
(***************************************************************************)
MaxDepth == 9

PathChains ==
    UNION {[1..d -> {"a", "long"}] : d \in 0..MaxDepth}
        \cup UNION {[1..d -> {"a", "a_bis"}] : d \in 0..MaxDepth}

InitPath ==
    /\ InitBase({FALSE}, {ConfV2}, Counters(0, 0, 0, 0, 0, 0))
    /\ walk \in {[phase |-> "ready", file |-> File(ns)] : ns \in PathChains}
    /\ conn = NoConn

\* mnt_path_local(file, &buflen, &error) on cpu, called by get_mnt_path; size
\* is what get_mnt_path makes of buflen and returns
PathResolve(cpu) ==
    /\ walk.phase = "ready"
    /\ \E r \in {mnt_path_local(walk.file, buffer_heap_map[cpu])} :
          /\ walk' = [phase |-> "done", file |-> walk.file, error |-> r.error,
                      buflen |-> r.buflen, path |-> PathOf(r),
                      size |-> get_mnt_path_end(r).size]
          /\ buffer_heap_map' = [buffer_heap_map EXCEPT ![cpu] = r.bf]
    /\ UNCHANGED <<big_endian, conf_map, maps, socks, pc, frame, conn, last, hist, nev>>

NextPath == \E cpu \in Cpus : PathResolve(cpu)

SpecPath == InitPath /\ [][NextPath]_vars

(***************************************************************************)
(* read_conn_tuple on its own: one flow presented by an AF_INET socket and *)
(* by an AF_INET6 socket holding the IPv4-mapped form of its addresses.    *)
(***************************************************************************)
FlowAddrs == {<<10, 0, 0, 1>>, <<10, 0, 0, 2>>, <<192, 168, 1, 200>>, <<0, 0, 255, 255>>}
FlowPorts == {80, 4000}

InitTuple ==
    /\ InitBase(BOOLEAN, {ConfV2}, Counters(0, 0, 0, 0, 0, 0))
    /\ walk = NoWalk
    /\ conn \in {[phase |-> "ready", saddr |-> sa, daddr |-> da, sport |-> sp, dport |-> dp] :
                    sa \in FlowAddrs, da \in FlowAddrs, sp \in FlowPorts, dp \in FlowPorts}

\* read_conn_tuple(&t, skp) with t zeroed, on either socket of the flow; again
\* is the tuple of the AF_INET6 socket put through the test and rewrite of
\* mapped addresses a second time
TupleRead ==
    /\ conn.phase = "ready"
    /\ \E r6 \in {read_conn_tuple(
                       ZeroTuple,
                       IPv6Sock(Mapped(conn.saddr), Mapped(conn.daddr),
                                conn.sport, conn.dport),
                       big_endian)} :
          conn' = [phase |-> "done",
                   saddr |-> conn.saddr, daddr |-> conn.daddr,
                   sport |-> conn.sport, dport |-> conn.dport,
                   v4 |-> read_conn_tuple(
                              ZeroTuple,
                              IPv4Sock(conn.saddr, conn.daddr, conn.sport, conn.dport),
                              big_endian),
                   v6 |-> r6,
                   again |-> map_ipv6_to_ipv4(r6.t, big_endian)]
    /\ UNCHANGED <<big_endian, conf_map, buffer_heap_map, maps, socks, pc, frame, walk,
                   last, hist, nev>>

NextTuple == TupleRead

SpecTuple == InitTuple /\ [][NextTuple]_vars

(***************************************************************************)
(* Claims on the programs run one invocation at a time                     *)
(***************************************************************************)
AllMaps == <<write_accumulator, read_accumulator, open_accumulator, create_accumulator,
             unlink_accumulator, ingress_accumulator, egress_accumulator,
             retrans_accumulator>>

ScratchMnt == [i \in 1..MAX_MOUNT_SIZE |->
                 IF i <= 8 THEN (<<47>> \o d_name("scratch"))[i] ELSE 0]

\* C3: after any series of read (write) events run one after the other, each
\* record of the read (write) map holds the sum of the non-negative return
\* values, the number of events and the number of negative return values of
\* the events applied to its key.
C3_RecordIsTally ==
    \A id \in DOMAIN hist :
        id.map \in {"read", "write"} =>
            LET map == IF id.map = "write" THEN write_accumulator ELSE read_accumulator
                key == [cid |-> id.cid, mnt |-> id.mnt]
            IN  /\ key \in DOMAIN map
                /\ map[key] = [bytes |-> U64(hist[id].bytes),
                               calls |-> U64(hist[id].calls),
                               errors |-> U64(hist[id].errors)]

\* a write of 100 bytes on /scratch under cgroup 42, then a failed write
C3_Witness ==
    /\ last.kind = "rw" /\ last.type = MODE_WRITE /\ last.ret < 0 /\ last.found
    /\ [cid |-> U32(42), mnt |-> ScratchMnt] \in DOMAIN write_accumulator
    /\ write_accumulator[[cid |-> U32(42), mnt |-> ScratchMnt]] =
           [bytes |-> U64(100), calls |-> U64(2), errors |-> U64(1)]

\* C4 as stated: an invocation of any program (read/write, inode, TCP, UDP)
\* whose resolved cgroup identifier is 0 or 1 changes no map.
C4_AllDropRootAndZero ==
    [][(nev' # nev /\ (last'.cgid = Zero64 \/ last'.cgid = U64(1)))
           => UNCHANGED maps]_vars

\* what the programs do: the read/write and inode programs change no map when
\* the resolved cgroup identifier is 0 or 1; the TCP and UDP programs test
\* only key.cid == 0, change no map when it is 0, and record an event of the
\* root cgroup (identifier 1).
C4_VfsDropRootNetDropZero ==
    [][nev' # nev =>
         /\ (last'.kind \in {"rw", "inode"} /\ (last'.cgid = Zero64 \/ last'.cgid = U64(1)))
                => UNCHANGED maps
         /\ (last'.kind \in {"tcp", "udp"} /\ last'.cgid = Zero64)
                => UNCHANGED maps
         /\ (last'.kind = "udp" /\ last'.cgid = U64(1) /\ last'.ret > 0)
                => net_maps' # net_maps
         /\ (last'.kind = "tcp" /\ last'.cgid = U64(1) /\ socket_accumulator = EmptyMap)
                => socket_accumulator' # socket_accumulator]_vars

\* a datagram sent by a task of the root cgroup, recorded under cid 1
C4_RootDatagramRecorded ==
    /\ last.kind = "udp" /\ last.cgid = U64(1) /\ last.ret > 0
    /\ \E key \in DOMAIN egress_accumulator \cup DOMAIN ingress_accumulator :
           key.cid = U32(1) /\ key.proto = IPPROTO_UDP

\* C7: the first observation of a tuple yields the socket's cumulative counters
\* and stores them; a later observation yields, for each counter not lower than
\* the stored one, current minus stored, and the stored record becomes the
\* current counters.
C7_DeltaTracking ==
    (last.kind = "tcp" /\ last.go) =>
        /\ last.key \in DOMAIN socket_accumulator
        /\ socket_accumulator[last.key] = last.cur
        /\ ~last.found => last.incr = last.cur
        /\ last.found =>
              \A f \in StatFields :
                  Leq64(last.stored[f], last.cur[f]) =>
                      /\ Add64(last.stored[f], last.incr[f]) = last.cur[f]
                      /\ Leq64(last.incr[f], last.cur[f])

\* a tuple stored at 10 packets and 20 bytes in, seen again at 15 and 20
C7_Witness ==
    /\ last.kind = "tcp" /\ last.go /\ last.found
    /\ last.stored.packets_in = U64(10) /\ last.stored.bytes_received = U64(20)
    /\ last.cur.packets_in = U64(15) /\ last.cur.bytes_received = U64(20)
    /\ last.incr.packets_in = U64(5) /\ last.incr.bytes_received = Zero64
    /\ socket_accumulator[last.key].packets_in = U64(15)

\* C8: when a counter of a known tuple is lower than the stored one, the
\* increment yielded for it is the current value and the stored value becomes
\* the current value.
C8_ClampOnLower ==
    (last.kind = "tcp" /\ last.go /\ last.found) =>
        \A f \in StatFields :
            Lt64(last.cur[f], last.stored[f]) =>
                /\ last.incr[f] = last.cur[f]
                /\ socket_accumulator[last.key][f] = last.cur[f]

\* C9: no step lowers a counter of a record of an aggregation map or removes
\* a record (no map is ever full, nothing is deleted).
C9_CountersNeverDecrease ==
    [][\A i \in 1..Len(AllMaps) :
          \A key \in DOMAIN AllMaps[i] :
              /\ key \in DOMAIN (AllMaps[i])'
              /\ \A f \in DOMAIN AllMaps[i][key] :
                     Leq64(AllMaps[i][key][f], (AllMaps[i])'[key][f])]_vars

\* the map of that name after the step
VfsMapNext(name) ==
    CASE name = "write" -> write_accumulator'
      [] name = "read" -> read_accumulator'
      [] name = "open" -> open_accumulator'
      [] name = "create" -> create_accumulator'
      [] name = "unlink" -> unlink_accumulator'

HistKey(id) ==
    IF id.map \in {"read", "write"} THEN [cid |-> id.cid, mnt |-> id.mnt] ELSE id.cid

\* C1: once every invocation has returned, the calls field of each record is
\* the number of events applied to its key, whatever the interleaving of the
\* lookups, inserts and atomic adds of the CPUs: no update is lost.
C1_NoLostCall ==
    (\A cpu \in Cpus : pc[cpu] = "idle") =>
        \A id \in DOMAIN hist :
            /\ HistKey(id) \in DOMAIN VfsMap(id.map)
            /\ VfsMap(id.map)[HistKey(id)].calls = U64(hist[id].calls)

\* C2: an invocation whose insert finds the key present (another CPU inserted
\* it after this one's lookup) does not return without having added its call
\* to the record that is there.
C2_FailedInsertCounts ==
    [][\A cpu \in Cpus :
          (/\ pc[cpu] \in {"rw_insert", "inode_insert"}
           /\ frame[cpu].key \in DOMAIN VfsMap(frame[cpu].map)
           /\ pc'[cpu] = "idle")
          => /\ frame[cpu].key \in DOMAIN VfsMapNext(frame[cpu].map)
             /\ VfsMapNext(frame[cpu].map)[frame[cpu].key].calls =
                    Add64(VfsMap(frame[cpu].map)[frame[cpu].key].calls, U64(1))]_vars

(***************************************************************************)
(* Claims on the mount-path resolver                                       *)
(***************************************************************************)
\* the path the mounts of a chain spell: '/' and the entry's name for each
\* level, the outermost level first
RECURSIVE TruePath(_)
TruePath(ns) ==
    IF ns = <<>> THEN <<>>
    ELSE TruePath(Tail(ns)) \o <<47>> \o d_name(Head(ns))

IsSuffix(p, q) ==
    /\ Len(p) <= Len(q)
    /\ \A i \in 1..Len(p) : p[i] = q[Len(q) - Len(p) + i]

\* no mount of the chain sits on the very entry the mount inside it sits on
NoStackedEntry(ns) == \A j \in 1..(Len(ns) - 1) : ns[j] # ns[j + 1]

\* the innermost level j below n whose entry is also that of level j + 1, the
\* mount outside it; 0 when the first n levels have no such pair
FirstStacked(ns, n) ==
    LET js == {j \in 1..(n - 1) : j < Len(ns) /\ ns[j] = ns[j + 1]}
    IN  IF js = {} THEN 0 ELSE CHOOSE j \in js : \A k \in js : j <= k

\* C5 as stated: a chain of depth at most 8 resolves with error 0 to exactly
\* the path its mounts spell.
C5_ResolvedUpToEight ==
    (walk.phase = "done" /\ Len(walk.file.ns) <= PROBE_MNT_ITERATIONS) =>
        /\ walk.error = 0
        /\ walk.path = TruePath(walk.file.ns)

\* C5 amended: for a chain with no two neighbouring levels on the same entry,
\* the resolver returns exactly the path the mounts spell when the depth is at
\* most 8; the error is 0 when the depth is at most 7, and is
\* UNRESOLVED_PATH_COMPONENTS when the depth is 8, the eight rounds having
\* ended before one of them saw the root.  When levels j and j + 1 are on the
\* same entry the walk stops there: error 0 and the components of the
\* innermost j levels.
C5_ResolvedUpToSeven ==
    (walk.phase = "done" /\ Len(walk.file.ns) <= PROBE_MNT_ITERATIONS) =>
        LET j == FirstStacked(walk.file.ns, PROBE_MNT_ITERATIONS)
        IN  IF j = 0
            THEN /\ walk.path = TruePath(walk.file.ns)
                 /\ walk.buflen = Len(walk.path)
                 /\ Len(walk.file.ns) < PROBE_MNT_ITERATIONS => walk.error = 0
                 /\ Len(walk.file.ns) = PROBE_MNT_ITERATIONS
                        => walk.error = UNRESOLVED_PATH_COMPONENTS
            ELSE /\ walk.path = TruePath(SubSeq(walk.file.ns, 1, j))
                 /\ walk.buflen = Len(walk.path)
                 /\ walk.error = 0

\* seven levels, names of 255 bytes and of 1 byte among them, resolved
C5_Witness ==
    /\ walk.phase = "done"
    /\ walk.file.ns = <<"a", "long", "a", "long", "a", "long", "a">>
    /\ walk.error = 0
    /\ Len(walk.path) = 3 * 256 + 4 * 2

\* C6 as stated: a chain deeper than 8 gives UNRESOLVED_PATH_COMPONENTS and a
\* non-empty suffix of the path its mounts spell, made of whole components.
C6_TruncatedBeyondEight ==
    (walk.phase = "done" /\ Len(walk.file.ns) > PROBE_MNT_ITERATIONS) =>
        /\ walk.error = UNRESOLVED_PATH_COMPONENTS
        /\ walk.path # <<>>
        /\ IsSuffix(walk.path, TruePath(walk.file.ns))
        /\ \E n \in 1..PROBE_MNT_ITERATIONS :
               walk.path = TruePath(SubSeq(walk.file.ns, 1, n))

\* C6 amended: a chain deeper than 8 whose innermost 8 levels have no two
\* neighbours on the same entry gives UNRESOLVED_PATH_COMPONENTS and the
\* components of its innermost 8 levels, each written whole and none over
\* another: a non-empty suffix of the path its mounts spell.  Levels 8 and 9
\* on the same entry change nothing, no ninth round being there to compare
\* them.  When levels j and j + 1 are on the same entry for a j below 8, the
\* walk stops at the innermost such j with error 0 and the components of the
\* innermost j levels.
C6_TruncatedInnermostEight ==
    (walk.phase = "done" /\ Len(walk.file.ns) > PROBE_MNT_ITERATIONS) =>
        LET j == FirstStacked(walk.file.ns, PROBE_MNT_ITERATIONS)
        IN  IF j = 0
            THEN /\ walk.error = UNRESOLVED_PATH_COMPONENTS
                 /\ walk.path # <<>>
                 /\ IsSuffix(walk.path, TruePath(walk.file.ns))
                 /\ walk.path = TruePath(SubSeq(walk.file.ns, 1, PROBE_MNT_ITERATIONS))
                 /\ walk.buflen = Len(walk.path)
            ELSE /\ walk.error = 0
                 /\ walk.path = TruePath(SubSeq(walk.file.ns, 1, j))
                 /\ walk.buflen = Len(walk.path)

\* nine levels, the ninth on the entry of the eighth: the components of the
\* innermost eight, 4 * 256 + 4 * 2 bytes
C6_Witness ==
    /\ walk.phase = "done"
    /\ walk.file.ns = <<"long", "a", "long", "a", "long", "a", "long", "a", "a">>
    /\ walk.error = UNRESOLVED_PATH_COMPONENTS
    /\ Len(walk.path) = 4 * 256 + 4 * 2

(***************************************************************************)
(* Claim on the connection tuple                                           *)
(***************************************************************************)
\* C10: a flow read from an AF_INET6 socket holding IPv4-mapped addresses gives
\* the tuple the same flow gives read from an AF_INET socket: high halves 0,
\* the IPv4 addresses as the low 32 bits of the low fields.
C10_MappedSameAsIPv4 ==
    (conn.phase = "done" /\ conn.v4.err = 0) =>
        /\ conn.v6.err = 0
        /\ conn.v6.t = conn.v4.t
        /\ conn.v6.t.saddr_h = Zero64 /\ conn.v6.t.daddr_h = Zero64
        /\ conn.v6.t.saddr_l = Ext64(Load32(conn.saddr, big_endian))
        /\ conn.v6.t.daddr_l = Ext64(Load32(conn.daddr, big_endian))

\* the same on a little-endian build only
C10_LittleEndianOnly == ~big_endian => C10_MappedSameAsIPv4

\* C11: a tuple whose addresses were found IPv4-mapped and rewritten is left
\* as it is by the same test and rewrite applied to it again.
C11_NormalizeIdempotent ==
    (conn.phase = "done" /\ conn.v6.err = 0) => conn.again = conn.v6.t

\* the same for flows neither of whose addresses is 0.0.255.255
C11_IdempotentOtherAddrs ==
    (/\ conn.phase = "done" /\ conn.v6.err = 0
     /\ conn.saddr # <<0, 0, 255, 255>> /\ conn.daddr # <<0, 0, 255, 255>>)
        => conn.again = conn.v6.t

(***************************************************************************)
(* read_conn_tuple on any socket: every family, addresses and ports that   *)
(* are zero (never set, or a read that failed) or not, IPv6 addresses that *)
(* are IPv4-mapped or not.                                                 *)
(***************************************************************************)
AF_UNSPEC == 0
AF_UNIX == 1

SockFamilies == {AF_UNSPEC, AF_UNIX, AF_INET, AF_INET6}

SockAddrs4 == {<<0, 0, 0, 0>>, <<10, 0, 0, 1>>}

\* ::, ::ffff:10.0.0.1, ::ffff:0.0.0.0, 2001:db8::1 and 2001:db8::1:0:0
SockAddrs6 ==
    {[i \in 1..16 |-> 0],
     Mapped(<<10, 0, 0, 1>>),
     Mapped(<<0, 0, 0, 0>>),
     <<32, 1, 13, 184, 0, 0, 0, 0, 0, 0, 0, 0, 0, 0, 0, 1>>,
     <<32, 1, 13, 184, 0, 0, 0, 0, 0, 0, 0, 1, 0, 0, 0, 0>>}

SockPorts == {0, 80}

\* the fields of struct sock and struct inet_sock that read_conn_tuple reads
AnySock(family, rcv_saddr, saddr, daddr, saddr6, daddr6, num, sport, dport) ==
    [skc_family |-> family,
     skc_rcv_saddr |-> rcv_saddr, inet_saddr |-> saddr, skc_daddr |-> daddr,
     skc_v6_rcv_saddr |-> saddr6, skc_v6_daddr |-> daddr6,
     skc_num |-> num, inet_sport |-> <<sport \div 256, sport % 256>>,
     skc_dport |-> <<dport \div 256, dport % 256>>]

AnySocks ==
    {AnySock(family, rcv_saddr, saddr, daddr, saddr6, daddr6, num, sport, dport) :
        family \in SockFamilies, rcv_saddr \in SockAddrs4, saddr \in SockAddrs4,
        daddr \in SockAddrs4, saddr6 \in SockAddrs6, daddr6 \in SockAddrs6,
        num \in SockPorts, sport \in SockPorts, dport \in SockPorts}

InitSock ==
    /\ InitBase(BOOLEAN, {ConfV2}, Counters(0, 0, 0, 0, 0, 0))
    /\ walk = NoWalk
    /\ conn \in {[phase |-> "ready", skp |-> skp] : skp \in AnySocks}

\* read_conn_tuple(&t, skp) with t zeroed, as read_conn_stats calls it
SockTupleRead ==
    /\ conn.phase = "ready"
    /\ conn' = [phase |-> "done", skp |-> conn.skp,
                r |-> read_conn_tuple(ZeroTuple, conn.skp, big_endian)]
    /\ UNCHANGED <<big_endian, conf_map, buffer_heap_map, maps, socks, pc, frame, walk,
                   last, hist, nev>>

NextSock == SockTupleRead

SpecSock == InitSock /\ [][NextSock]_vars

\* the tuple has every field the claim wants non-zero
TupleComplete(t) ==
    /\ ~(t.saddr_h = Zero64 /\ t.saddr_l = Zero64)
    /\ ~(t.daddr_h = Zero64 /\ t.daddr_l = Zero64)
    /\ t.sport # 0
    /\ t.dport # 0

\* C12: read_conn_tuple returns 0 exactly when the family is AF_INET or
\* AF_INET6 and the tuple it leaves has a non-zero source address, a non-zero
\* destination address and non-zero ports; it returns 1 in every other case.
C12_SuccessIffComplete ==
    conn.phase = "done" =>
        (conn.r.err = 0 <=>
            (conn.skp.skc_family \in {AF_INET, AF_INET6} /\ TupleComplete(conn.r.t)))

\* the same for AF_INET sockets: there the addresses tested are the ones kept
C12_SuccessIffCompleteIPv4 ==
    (conn.phase = "done" /\ conn.skp.skc_family # AF_INET6) => C12_SuccessIffComplete

(***************************************************************************)
(* handle_tcp_event around a connection that may be unusable: a socket of  *)
(* another family, a socket with no peer (never connected, or              *)
(* disconnected: the kernel zeroes its peer address and port), and reads   *)
(* of the socket that fail.  bpf_probe_read_kernel zeroes its destination  *)
(* when it fails, so a failed read of a field is a read of zero.           *)
(***************************************************************************)
MaxTcpEvents == 2

TcpSocks ==
    {TcpSock,
     [TcpSock EXCEPT !.skc_family = AF_UNIX],
     [TcpSock EXCEPT !.skc_dport = <<0, 0>>],
     [TcpSock EXCEPT !.skc_daddr = <<0, 0, 0, 0>>]}

\* the fields whose read may fail
FaultFields == CounterFields \cup {"skc_family", "skc_rcv_saddr", "skc_daddr",
                                   "skc_num", "skc_dport"}

\* skp as an invocation sees it when its read of field f fails
FaultedSock(skp, f) ==
    [skp EXCEPT ![f] = IF f \in {"skc_family", "skc_num"} THEN 0
                       ELSE [i \in DOMAIN skp[f] |-> 0]]

InitTcp ==
    /\ big_endian = FALSE
    /\ conf_map = ConfV2
    /\ buffer_heap_map = [c \in Cpus |-> <<>>]
    /\ InitMaps
    /\ socks \in [SockNames -> {WithCounters(sk, Counters(10, 4, 20, 8, 0, 0)) :
                                   sk \in TcpSocks}]
    /\ pc = [c \in Cpus |-> "idle"]
    /\ frame = [c \in Cpus |-> NoFrame]
    /\ walk = NoWalk
    /\ conn = NoConn
    /\ last = NoLast
    /\ hist = EmptyMap
    /\ nev = 0

\* handle_tcp_event with the read of field f of the socket failing
TcpEventFault(task, s, f) ==
    /\ TcpEventOn(task, FaultedSock(socks[s], f))
    /\ conn' = [phase |-> "fault", field |-> f, seq |-> nev + 1]

\* tcp_disconnect() in the kernel: the socket loses its peer
SockDisconnect(s) ==
    /\ socks[s].skc_dport # <<0, 0>>
    /\ socks' = [socks EXCEPT ![s].skc_dport = <<0, 0>>,
                              ![s].skc_daddr = <<0, 0, 0, 0>>]
    /\ last' = [NoLast EXCEPT !.kind = "disconnect"]
    /\ UNCHANGED <<big_endian, conf_map, buffer_heap_map, maps, pc, frame, walk, conn,
                   hist, nev>>

NextTcp ==
    \/ nev < MaxTcpEvents /\ \E s \in SockNames : TcpEvent(TaskInCgroup(U64(42)), s)
    \/ nev < MaxTcpEvents /\ \E s \in SockNames, f \in FaultFields :
                                 TcpEventFault(TaskInCgroup(U64(42)), s, f)
    \/ \E s \in SockNames, c \in CounterSet : SockTraffic(s, c)
    \/ \E s \in SockNames : SockDisconnect(s)

SpecTcp == InitTcp /\ [][NextTcp]_vars

\* C13: an invocation of the TCP program on a socket whose tuple cannot be
\* read (unsupported family, zero address or zero port) leaves
\* socket_accumulator and the ingress, egress and retransmission maps as
\* they were.
C13_FailedTupleNoUpdate ==
    [][\A s \in SockNames :
          (/\ nev' = nev + 1 /\ last'.kind = "tcp" /\ conn' = conn
           /\ read_conn_tuple(ZeroTuple, socks[s], big_endian).err # 0)
          => UNCHANGED <<socket_accumulator, net_maps>>]_vars

\* a connection recorded in every map, then disconnected, then seen again by
\* the program: the event is dropped
C13_Witness ==
    /\ last.kind = "tcp" /\ ~last.go /\ last.cgid = U64(42)
    /\ socks["tcp1"].skc_dport = <<0, 0>>
    /\ socket_accumulator # EmptyMap
    /\ ingress_accumulator # EmptyMap
    /\ egress_accumulator # EmptyMap
    /\ retrans_accumulator # EmptyMap

\* C14: an invocation one of whose reads of kernel memory fails changes no
\* map.
C14_FaultNoUpdate ==
    [][(conn'.phase = "fault" /\ conn' # conn) => UNCHANGED maps]_vars

\* the same for the reads of the family, the peer address and the peer port
C14_TupleFaultNoUpdate ==
    [][(/\ conn'.phase = "fault" /\ conn' # conn
        /\ conn'.field \in {"skc_family", "skc_daddr", "skc_dport"})
          => UNCHANGED maps]_vars

(***************************************************************************)
(* handle_rw_event on files of several mounts: the root mount, mounts      *)
(* under /proc, /dev and /sys, mounts whose path only starts like one of   *)
(* them, and mounts more than eight levels deep.  walk.file is the file    *)
(* the next read or write is on.                                           *)
(***************************************************************************)
MaxMntEvents == 2

DeepChain == <<"a", "long", "a", "long", "a", "long", "a", "long", "a">>
DeepProcChain == <<"a", "data", "a", "data", "a", "data", "a", "proc", "jobs">>
EightChain == <<"a", "data", "a", "data", "a", "data", "a", "data">>

MntChains ==
    {<<>>, <<"proc">>, <<"dev">>, <<"sys">>, <<"device">>, <<"a", "proc">>,
     <<"proc", "data">>, <<"jobs", "data">>, <<"scratch">>,
     DeepChain, DeepProcChain, EightChain}

InitMnt ==
    /\ InitBase({FALSE}, {ConfV2}, Counters(0, 0, 0, 0, 0, 0))
    /\ walk \in {[phase |-> "file", file |-> File(ns)] : ns \in MntChains}
    /\ conn = NoConn

\* the next read or write is on another file
OpenFile(ns) ==
    /\ walk.file # File(ns)
    /\ last.kind = "rw"
    /\ walk' = [walk EXCEPT !.file = File(ns)]
    /\ last' = [NoLast EXCEPT !.kind = "open_file"]
    /\ UNCHANGED <<big_endian, conf_map, buffer_heap_map, maps, socks, pc, frame, conn,
                   hist, nev>>

NextMnt ==
    \/ /\ nev < MaxMntEvents
       /\ \E task \in ConcTasks, ret \in ConcRwRets, type \in {MODE_READ, MODE_WRITE} :
             RwEvent(1, task, walk.file, ret, type)
    \/ nev = 1 /\ \E ns \in MntChains : OpenFile(ns)

SpecMnt == InitMnt /\ [][NextMnt]_vars

\* path starts with the bytes of prefix
BeginsWith(path, prefix) ==
    /\ Len(path) >= Len(prefix)
    /\ SubSeq(path, 1, Len(prefix)) = prefix

\* path starts with "/dev", "/sys" or "/proc"
IgnoredPath(path) ==
    \/ BeginsWith(path, <<47, 100, 101, 118>>)
    \/ BeginsWith(path, <<47, 115, 121, 115>>)
    \/ BeginsWith(path, <<47, 112, 114, 111, 99>>)

\* the first MAX_MOUNT_SIZE bytes of path, zero-padded
KeyMnt(path) == [i \in 1..MAX_MOUNT_SIZE |-> IF i <= Len(path) THEN path[i] ELSE 0]

\* the step is a read or a write event of a cgroup that is tracked
RwStepOfJob == nev' = nev + 1 /\ last'.kind = "rw" /\ Trunc32(last'.cgid) \notin {U32(0), U32(1)}

\* the step created the record of key in the map of its mode, or added a call
\* to it
RwStepRecorded(key) ==
    LET old == IF last'.type = MODE_WRITE THEN write_accumulator ELSE read_accumulator
        new == IF last'.type = MODE_WRITE THEN write_accumulator' ELSE read_accumulator'
    IN  /\ key \in DOMAIN new
        /\ new[key].calls = IF key \in DOMAIN old THEN Add64(old[key].calls, U64(1))
                            ELSE U64(1)

\* the two halves of C15 for a step on a file whose mount path resolves to path
C15_Step(path) ==
    /\ (nev' = nev + 1 /\ last'.kind = "rw" /\ IgnoredPath(path)) => UNCHANGED maps
    /\ (RwStepOfJob /\ path # <<>> /\ ~IgnoredPath(path))
           => RwStepRecorded([cid |-> Trunc32(last'.cgid), mnt |-> KeyMnt(path)])

\* C15: a read or write on a file whose resolved mount path begins with
\* "/dev", "/sys" or "/proc" changes no map; one of a task with a cgroup id
\* other than 0 and 1 on a file of any other non-empty mount path creates the
\* record of (cgroup, path) or adds to it.
C15_IgnoreListFilter ==
    [][C15_Step(PathOf(mnt_path_local(walk.file, buffer_heap_map[1])))]_vars

\* a write on /data/jobs recorded, then a write on /proc/a dropped
C15_Witness ==
    /\ last.kind = "rw" /\ last.cgid = U64(42) /\ ~last.go
    /\ walk.file.ns = <<"a", "proc">>
    /\ [cid |-> U32(42),
        mnt |-> KeyMnt(<<47>> \o d_name("data") \o <<47>> \o d_name("jobs"))]
           \in DOMAIN write_accumulator

\* C16 for a step on a file whose walk returns r
C16_Step(r) ==
    /\ (/\ RwStepOfJob
        /\ r.error = UNRESOLVED_PATH_COMPONENTS /\ r.buflen > 0
        /\ ~IgnoredPath(PathOf(r)))
           => RwStepRecorded([cid |-> Trunc32(last'.cgid), mnt |-> KeyMnt(PathOf(r))])
    /\ (/\ RwStepOfJob
        /\ ~IgnoredPath(PathOf(r))
        /\ write_accumulator' = write_accumulator
        /\ read_accumulator' = read_accumulator)
           => r.buflen = 0

\* C16: a read or write of a tracked cgroup whose mount walk ends unresolved
\* with at least one component written, on a path that is not ignored, is
\* recorded under the part of the path that was written; an event on a path
\* that is not ignored is dropped only when the walk wrote nothing.
C16_TruncatedStillRecorded ==
    [][C16_Step(mnt_path_local(walk.file, buffer_heap_map[1]))]_vars

\* a write on a file nine mounts deep, recorded under the path of the
\* innermost eight
C16_Witness ==
    /\ last.kind = "rw" /\ last.go /\ last.type = MODE_WRITE
    /\ walk.file.ns = DeepChain
    /\ last.key.mnt = KeyMnt(TruePath(SubSeq(DeepChain, 1, PROBE_MNT_ITERATIONS)))
    /\ last.key \in DOMAIN write_accumulator

(***************************************************************************)
(* ceems_get_current_cgroup_id read by read.  frame[cpu] holds the current *)
(* task of the CPU, the locals of the call in progress, the links it has   *)
(* read so far (reads) and the values the calls made since the task last   *)
(* changed cgroup have returned (results).                                 *)
(***************************************************************************)
MaxCgCalls == 2

\* a task whose cgroup of legacy subsystem i has id 100 + i
TaskPerSubsys ==
    [cgroups |-> <<[subsys |-> [i \in 0..pids_cgrp_id |->
                        <<[cgroup |-> <<[kn |-> <<[id |-> U64(100 + i)]>>]>>]>>]]>>,
     dfl_cgrp_id |-> U64(42)]

\* tasks one of whose links is NULL or cannot be read
TaskNoSubsys ==
    [cgroups |-> <<[subsys |-> [i \in 0..pids_cgrp_id |-> NULL]]>>,
     dfl_cgrp_id |-> U64(42)]

TaskNoCgroup ==
    [cgroups |-> <<[subsys |-> [i \in 0..pids_cgrp_id |-> <<[cgroup |-> NULL]>>]]>>,
     dfl_cgrp_id |-> U64(42)]

TaskNoKn ==
    [cgroups |-> <<[subsys |-> [i \in 0..pids_cgrp_id |->
                        <<[cgroup |-> <<[kn |-> NULL]>>]>>]]>>,
     dfl_cgrp_id |-> U64(42)]

CgTasks == {TaskPerSubsys, TaskNoCssSet(U64(42)), TaskNoSubsys, TaskNoCgroup, TaskNoKn}

\* struct conf with subsystem index idx under the legacy hierarchy
ConfV1Idx(idx) == <<[cgrp_subsys_idx |-> idx, cgrp_fs_magic |-> U64(CGROUP_SUPER_MAGIC)]>>

\* 0, 11, 12, 2^31, 2^32 - 1, 2^32 + 3 and 2^32 + 12
CgIndexes ==
    {U64(0), U64(pids_cgrp_id), U64(pids_cgrp_id + 1), <<0, 32768, 0, 0>>,
     <<65535, 65535, 0, 0>>, <<3, 0, 1, 0>>, <<12, 0, 1, 0>>}

\* struct conf with magic 0, and with a magic that has the low 32 bits of
\* CGROUP2_SUPER_MAGIC and bit 32 set
ConfNoMagic == <<[cgrp_subsys_idx |-> U64(4), cgrp_fs_magic |-> Zero64]>>
ConfHighMagic ==
    <<[cgrp_subsys_idx |-> U64(4),
       cgrp_fs_magic |-> [U64(CGROUP2_SUPER_MAGIC) EXCEPT ![3] = 1]]>>

CgConfs ==
    {NULL, ConfV2, ConfNoMagic, ConfHighMagic} \cup {ConfV1Idx(idx) : idx \in CgIndexes}

CgFrame(task) ==
    [task |-> task, subsys_idx |-> U32(0), cgroups |-> NULL, subsys |-> NULL,
     cgrp |-> NULL, kn |-> NULL, reads |-> <<>>, results |-> <<>>]

InitCgroup ==
    /\ big_endian = FALSE
    /\ conf_map \in CgConfs
    /\ buffer_heap_map = [c \in Cpus |-> <<>>]
    /\ InitMaps
    /\ socks = [s \in SockNames |-> WithCounters(TcpSock, Counters(0, 0, 0, 0, 0, 0))]
    /\ pc = [c \in Cpus |-> "idle"]
    /\ \E task \in CgTasks : frame = [c \in Cpus |-> CgFrame(task)]
    /\ walk = NoWalk
    /\ conn = NoConn
    /\ last = NoLast
    /\ hist = EmptyMap
    /\ nev = 0

CgRest == <<big_endian, conf_map, buffer_heap_map, maps, socks, walk, conn, hist>>

\* the call on cpu returns id
CgReturn(cpu, id, reads) ==
    /\ pc' = [pc EXCEPT ![cpu] = "idle"]
    /\ frame' = [frame EXCEPT ![cpu] =
                    [CgFrame(@.task) EXCEPT !.reads = reads,
                                            !.results = Append(frame[cpu].results, id)]]
    /\ last' = [NoLast EXCEPT !.kind = "cgroup", !.cgid = id, !.key = reads]

\* the call goes on to its next read
CgGoto(cpu, label, f) ==
    /\ pc' = [pc EXCEPT ![cpu] = label]
    /\ frame' = [frame EXCEPT ![cpu] = f]
    /\ last' = [NoLast EXCEPT !.kind = "cgroup_read"]

\* a call that walks subsystem 0 when there is no configuration
CgCall_default0(cpu) ==
    LET cfg == conf_map
        cgrpfs_magic == IF cfg # NULL THEN cfg[1].cgrp_fs_magic ELSE Zero64
        subsys_idx == IF cfg # NULL THEN Trunc32(cfg[1].cgrp_subsys_idx) ELSE U32(0)
    IN  /\ pc[cpu] = "idle"
        /\ nev' = nev + 1
        /\ IF cgrpfs_magic = U64(CGROUP2_SUPER_MAGIC)
           THEN CgReturn(cpu, bpf_get_current_cgroup_id(frame[cpu].task), <<>>)
           ELSE CgGoto(cpu, "cg_cgroups",
                       [frame[cpu] EXCEPT !.subsys_idx = subsys_idx, !.reads = <<>>])
        /\ UNCHANGED CgRest

\* ceems_get_current_cgroup_id up to the choice of the hierarchy
CgCall(cpu) ==
    LET cfg == conf_map
        cgrpfs_magic == IF cfg # NULL THEN cfg[1].cgrp_fs_magic ELSE Zero64
        subsys_idx == IF cfg # NULL THEN Trunc32(cfg[1].cgrp_subsys_idx) ELSE U32(1)
    IN  /\ pc[cpu] = "idle"
        /\ nev' = nev + 1
        /\ IF cgrpfs_magic = U64(CGROUP2_SUPER_MAGIC)
           THEN CgReturn(cpu, bpf_get_current_cgroup_id(frame[cpu].task), <<>>)
           ELSE CgGoto(cpu, "cg_cgroups",
                       [frame[cpu] EXCEPT !.subsys_idx = subsys_idx, !.reads = <<>>])
        /\ UNCHANGED CgRest

\* get_task_cgroup: the read of task->cgroups and the test of subsys_idx
CgReadCssSet(cpu) ==
    LET f == frame[cpu]
        cgroups == f.task.cgroups
        reads == Append(f.reads, "cgroups")
    IN  /\ pc[cpu] = "cg_cgroups"
        /\ IF cgroups = NULL THEN CgReturn(cpu, Zero64, reads)
           ELSE IF f.subsys_idx[2] > 0 \/ f.subsys_idx[1] > pids_cgrp_id
           THEN CgReturn(cpu, Zero64, reads)
           ELSE CgGoto(cpu, "cg_subsys", [f EXCEPT !.cgroups = cgroups, !.reads = reads])
        /\ UNCHANGED <<nev, CgRest>>

\* the read of cgroups->subsys[subsys_idx] without the test of its result
CgReadSubsys_unchecked(cpu) ==
    LET f == frame[cpu]
        subsys == f.cgroups[1].subsys[f.subsys_idx[1]]
        reads == Append(f.reads, "subsys")
    IN  /\ pc[cpu] = "cg_subsys"
        /\ CgGoto(cpu, "cg_cgroup",
                  [f EXCEPT !.subsys = IF subsys = NULL THEN <<[cgroup |-> NULL]>> ELSE subsys,
                            !.reads = reads])
        /\ UNCHANGED <<nev, CgRest>>

\* get_task_cgroup: the read of cgroups->subsys[subsys_idx]
CgReadSubsys(cpu) ==
    LET f == frame[cpu]
        subsys == f.cgroups[1].subsys[f.subsys_idx[1]]
        reads == Append(f.reads, "subsys")
    IN  /\ pc[cpu] = "cg_subsys"
        /\ IF subsys = NULL THEN CgReturn(cpu, Zero64, reads)
           ELSE CgGoto(cpu, "cg_cgroup", [f EXCEPT !.subsys = subsys, !.reads = reads])
        /\ UNCHANGED <<nev, CgRest>>

\* get_task_cgroup: the read of subsys->cgroup, and the test of its result in
\* ceems_get_current_cgroupv1_id
CgReadCgroup(cpu) ==
    LET f == frame[cpu]
        cgrp == f.subsys[1].cgroup
        reads == Append(f.reads, "cgroup")
    IN  /\ pc[cpu] = "cg_cgroup"
        /\ IF cgrp = NULL THEN CgReturn(cpu, Zero64, reads)
           ELSE CgGoto(cpu, "cg_kn", [f EXCEPT !.cgrp = cgrp, !.reads = reads])
        /\ UNCHANGED <<nev, CgRest>>

\* __get_cgroup_kn: the read of cgrp->kn
CgReadKn(cpu) ==
    LET f == frame[cpu]
    IN  /\ pc[cpu] = "cg_kn"
        /\ CgGoto(cpu, "cg_id", [f EXCEPT !.kn = get_cgroup_kn(f.cgrp),
                                          !.reads = Append(f.reads, "kn")])
        /\ UNCHANGED <<nev, CgRest>>

\* the read of kn->id with the locals of the walk kept in one slot that all
\* CPUs share instead of on the stack of the program
CgReadId_shared(cpu) ==
    LET f == frame[cpu]
        kn == frame[1].kn
    IN  /\ pc[cpu] = "cg_id"
        /\ CgReturn(cpu, get_cgroup_kn_id(kn),
                    IF kn = NULL THEN f.reads ELSE Append(f.reads, "id"))
        /\ UNCHANGED <<nev, CgRest>>

\* __get_cgroup_kn_id: the read of kn->id, when kn is not NULL
CgReadId(cpu) ==
    LET f == frame[cpu]
    IN  /\ pc[cpu] = "cg_id"
        /\ CgReturn(cpu, get_cgroup_kn_id(f.kn),
                    IF f.kn = NULL THEN f.reads ELSE Append(f.reads, "id"))
        /\ UNCHANGED <<nev, CgRest>>

\* the current task of the CPU becomes a task of other cgroups
TaskMigrate(cpu, task) ==
    /\ pc[cpu] = "idle"
    /\ frame[cpu].task # task
    /\ frame[cpu].results # <<>>
    /\ frame' = [frame EXCEPT ![cpu] = CgFrame(task)]
    /\ last' = [NoLast EXCEPT !.kind = "migrate"]
    /\ UNCHANGED <<pc, nev, CgRest>>

NextCgroup ==
    \E cpu \in {1} :
        \/ nev < MaxCgCalls /\ CgCall(cpu)
        \/ CgReadCssSet(cpu)
        \/ CgReadSubsys(cpu)
        \/ CgReadCgroup(cpu)
        \/ CgReadKn(cpu)
        \/ CgReadId(cpu)
        \/ nev < MaxCgCalls /\ \E task \in {TaskPerSubsys, TaskNoCgroup} : TaskMigrate(cpu, task)

SpecCgroup == InitCgroup /\ [][NextCgroup]_vars

\* the configuration selects the legacy hierarchy
LegacyConf == conf_map = NULL \/ conf_map[1].cgrp_fs_magic # U64(CGROUP2_SUPER_MAGIC)

\* a call on cpu 1 has just returned
CgReturned == last.kind = "cgroup" /\ pc[1] = "idle"

\* the value returned is the one the resolver as a function gives
CgAgreesWithOperator ==
    CgReturned => last.cgid = ceems_get_current_cgroup_id(conf_map, frame[1].task)

\* the index the legacy walk uses
CgIndexInRange ==
    conf_map = NULL \/ (/\ conf_map[1].cgrp_subsys_idx[2] = 0
                        /\ conf_map[1].cgrp_subsys_idx[1] <= pids_cgrp_id)

\* C17: under the legacy hierarchy the resolver returns 0 when the task's
\* css_set pointer, the subsystem-state pointer at the configured index, the
\* cgroup pointer or the cgroup's kernfs node pointer is NULL, and the failed
\* link is the last one it has read.
C17_StopsAtFirstNullLink ==
    (CgReturned /\ LegacyConf) =>
        LET task == frame[1].task
            reads == last.key
        IN  /\ task = TaskNoCssSet(U64(42))
                => last.cgid = Zero64 /\ reads = <<"cgroups">>
            /\ (task = TaskNoSubsys /\ CgIndexInRange)
                => last.cgid = Zero64 /\ reads = <<"cgroups", "subsys">>
            /\ (task = TaskNoCgroup /\ CgIndexInRange)
                => last.cgid = Zero64 /\ reads = <<"cgroups", "subsys", "cgroup">>
            /\ (task = TaskNoKn /\ CgIndexInRange)
                => last.cgid = Zero64 /\ reads = <<"cgroups", "subsys", "cgroup", "kn">>

\* a task whose subsystem state has no cgroup: three reads, then 0
C17_Witness ==
    /\ CgReturned /\ LegacyConf
    /\ frame[1].task = TaskNoCgroup
    /\ last.key = <<"cgroups", "subsys", "cgroup">>
    /\ last.cgid = Zero64

\* C18: under the legacy hierarchy, whenever the configured 64-bit index is
\* above pids_cgrp_id the resolver returns 0 and has not read the subsys array.
C18_IndexAboveMaxRejected ==
    (/\ CgReturned /\ LegacyConf /\ conf_map # NULL
     /\ Lt64(U64(pids_cgrp_id), conf_map[1].cgrp_subsys_idx)) =>
        /\ last.cgid = Zero64
        /\ \A i \in 1..Len(last.key) : last.key[i] # "subsys"

\* the same for indexes below 2^32
C18_RejectedBelowTwoPow32 ==
    (/\ CgReturned /\ LegacyConf /\ conf_map # NULL
     /\ conf_map[1].cgrp_subsys_idx[3] = 0 /\ conf_map[1].cgrp_subsys_idx[4] = 0)
        => C18_IndexAboveMaxRejected

(***************************************************************************)
(* Repeated calls of the resolver: both CPUs run it, each for its current  *)
(* task; between calls the current task of a CPU changes and user space    *)
(* rewrites the configuration.  hist is here the set of the calls that     *)
(* returned before the last such change, each with the configuration and   *)
(* the task it was made for.                                               *)
(***************************************************************************)
MaxStableCalls == 4

\* a task of other cgroups than TaskPerSubsys, in both hierarchies
TaskOtherCgroups ==
    [cgroups |-> <<[subsys |-> [i \in 0..pids_cgrp_id |->
                        <<[cgroup |-> <<[kn |-> <<[id |-> U64(200 + i)]>>]>>]>>]]>>,
     dfl_cgrp_id |-> U64(43)]

StableTasks == {TaskPerSubsys, TaskOtherCgroups}

\* the unified hierarchy, and the legacy hierarchy with the index of the pids
\* and of the memory subsystem
StableConfs == {ConfV2, ConfV1, ConfV1Idx(U64(4))}

\* the calls that have returned on cpu since its task or the configuration
\* last changed
ReturnedOn(cpu) ==
    {[conf |-> conf_map, task |-> frame[cpu].task, id |-> frame[cpu].results[i]] :
        i \in 1..Len(frame[cpu].results)}

InitStable ==
    /\ big_endian = FALSE
    /\ conf_map \in StableConfs
    /\ buffer_heap_map = [c \in Cpus |-> <<>>]
    /\ InitMaps
    /\ socks = [s \in SockNames |-> WithCounters(TcpSock, Counters(0, 0, 0, 0, 0, 0))]
    /\ pc = [c \in Cpus |-> "idle"]
    /\ frame \in [Cpus -> {CgFrame(task) : task \in StableTasks}]
    /\ walk = NoWalk
    /\ conn = NoConn
    /\ last = NoLast
    /\ hist = {}
    /\ nev = 0

\* bpf_get_current_task on cpu gives another task from now on: the CPU has
\* switched to it, or the task has been moved to other cgroups
TaskSwitch(cpu, task) ==
    /\ pc[cpu] = "idle"
    /\ frame[cpu].task # task
    /\ hist' = hist \cup ReturnedOn(cpu)
    /\ frame' = [frame EXCEPT ![cpu] = CgFrame(task)]
    /\ last' = [NoLast EXCEPT !.kind = "migrate"]
    /\ UNCHANGED <<big_endian, conf_map, buffer_heap_map, maps, socks, walk, conn, pc, nev>>

\* user space rewrites the record of conf_map while no program is running
ConfUpdate(c) ==
    /\ \A cpu \in Cpus : pc[cpu] = "idle"
    /\ conf_map # c
    /\ conf_map' = c
    /\ hist' = hist \cup UNION {ReturnedOn(cpu) : cpu \in Cpus}
    /\ frame' = [cpu \in Cpus |-> CgFrame(frame[cpu].task)]
    /\ last' = [NoLast EXCEPT !.kind = "conf"]
    /\ UNCHANGED <<big_endian, buffer_heap_map, maps, socks, walk, conn, pc, nev>>

NextStable ==
    \/ \E cpu \in Cpus :
        \/ nev < MaxStableCalls /\ CgCall(cpu)
        \/ CgReadCssSet(cpu)
        \/ CgReadSubsys(cpu)
        \/ CgReadCgroup(cpu)
        \/ CgReadKn(cpu)
        \/ CgReadId(cpu)
        \/ \E task \in StableTasks : TaskSwitch(cpu, task)
    \/ \E c \in StableConfs : ConfUpdate(c)

SpecStable == InitStable /\ [][NextStable]_vars

\* every call that has returned, with its configuration and its task
StableCalls == hist \cup UNION {ReturnedOn(cpu) : cpu \in Cpus}

\* a step of a call: a CPU enters, goes on with or leaves the resolver
CgStep == pc' # pc \/ nev' # nev

\* C19: any two calls made under the same configuration record for a task of
\* the same cgroups return the same identifier, whichever CPU made them and
\* whatever ran in between (calls for other tasks, under other
\* configurations, on the other CPU), under the unified hierarchy and under
\* the legacy hierarchy with a subsystem index in range; and no step of a
\* call changes the configuration or a map.
C19_StableIdentifier ==
    /\ [](\A a, b \in StableCalls : (a.conf = b.conf /\ a.task = b.task) => a.id = b.id)
    /\ [][CgStep => UNCHANGED <<conf_map, maps>>]_vars

\* the task of cgroup 111 of the pids hierarchy resolved on CPU 1, then the
\* CPU ran a task of other cgroups, the configuration went to the unified
\* hierarchy and back, and the first task resolved on CPU 2 to 111 again
C19_Witness ==
    /\ conf_map = ConfV1
    /\ [conf |-> ConfV1, task |-> TaskPerSubsys, id |-> U64(100 + pids_cgrp_id)] \in hist
    /\ [conf |-> ConfV1, task |-> TaskOtherCgroups, id |-> U64(200 + pids_cgrp_id)] \in hist
    /\ [conf |-> ConfV2, task |-> TaskPerSubsys, id |-> U64(42)] \in hist
    /\ frame[2].task = TaskPerSubsys
    /\ frame[2].results = <<U64(100 + pids_cgrp_id)>>

(***************************************************************************)
(* Claim on the length of the resolved path                                *)
(***************************************************************************)
\* no byte of a scratch buffer has been written
NothingWritten == \A c \in Cpus : buffer_heap_map[c] = <<>>

\* C20 as stated: the length the resolver returns is 0, nothing having been
\* written, or lies in (0, 256].
C20_LengthAtMost256 ==
    walk.phase = "done" =>
        \/ walk.buflen = 0 /\ NothingWritten
        \/ walk.buflen > 0 /\ walk.buflen <= 256

\* what mnt_path_local returns: the number of bytes it wrote, 0 exactly when
\* nothing was written, and at most 8 * 256 = 2048, one separator and one name
\* of at most 255 bytes for each of the 8 rounds; for a chain with no two
\* neighbouring levels on the same entry it is the length of the path of the
\* innermost 8 levels.  get_mnt_path returns that length modulo 256, a value
\* in 0..255.
C20_LengthUpToEightNames ==
    walk.phase = "done" =>
        /\ walk.buflen \in 0..(PROBE_MNT_ITERATIONS * 256)
        /\ walk.buflen = 0 <=> NothingWritten
        /\ walk.buflen = 0 <=> walk.file.ns = <<>>
        /\ walk.size = walk.buflen % 256
        /\ NoStackedEntry(walk.file.ns) =>
               LET d == Len(walk.file.ns)
                   n == IF d > PROBE_MNT_ITERATIONS THEN PROBE_MNT_ITERATIONS ELSE d
               IN  walk.buflen = Len(TruePath(SubSeq(walk.file.ns, 1, n)))

\* eight levels, four of them with names of 255 bytes: 1032 bytes, of which
\* get_mnt_path reports 8
C20_LongPath ==
    /\ walk.phase = "done"
    /\ walk.file.ns = <<"long", "a", "long", "a", "long", "a", "long", "a">>
    /\ walk.buflen = 4 * 256 + 4 * 2
    /\ walk.size = 8

(***************************************************************************)
(* The mount walk round by round, on every CPU at once.  frame[cpu] holds  *)
(* the file, struct mnt_path_data (its bf the slot of buffer_heap_map the  *)
(* lookup gave), the number of rounds run, the slot's content when the     *)
(* walk began, whether a round of it ran while another CPU was in a walk,  *)
(* and what the finished walk gave.                                        *)
(***************************************************************************)
MaxWalks == 2

\* chains that end at the root after 0, 1, 2 and 9 levels, and chains whose
\* parent links form a cycle of 1, 2 and 3 mounts
WalkChains ==
    {<<>>, <<"a">>, <<"data", "long">>,
     <<"a", "long", "a", "long", "a", "long", "a", "long", "a">>,
     <<"a", CycleMark>>, <<"long", "a", CycleMark>>, <<"proc", "a", "a_bis", CycleMark>>}

\* bpf_map_lookup_elem on the BPF_MAP_TYPE_PERCPU_ARRAY: one slot for all CPUs
percpu_slot_shared(cpu) == 1

\* bpf_map_lookup_elem on the BPF_MAP_TYPE_PERCPU_ARRAY: the slot of this CPU
percpu_slot(cpu) == cpu

\* the loop of prepend_mnt_path with no limit on its rounds
walk_continues_unbounded(ret, i) == ret = 0

\* the loop of prepend_mnt_path goes on to round i + 1 after round i returned ret
walk_continues(ret, i) == ret = 0 /\ i + 1 < PROBE_MNT_ITERATIONS

NoWalkFrame ==
    [file |-> NULL, data |-> NULL, i |-> 0, bf0 |-> <<>>, mixed |-> FALSE, result |-> NULL]

InitWalk ==
    /\ big_endian = FALSE
    /\ conf_map = ConfV2
    /\ buffer_heap_map = [c \in Cpus |-> <<>>]
    /\ InitMaps
    /\ socks = [s \in SockNames |-> WithCounters(TcpSock, Counters(0, 0, 0, 0, 0, 0))]
    /\ pc = [c \in Cpus |-> "idle"]
    /\ frame = [c \in Cpus |-> NoWalkFrame]
    /\ walk = NoWalk
    /\ conn = NoConn
    /\ last = NoLast
    /\ hist = EmptyMap
    /\ nev = 0

WalkRest == <<big_endian, conf_map, maps, socks, walk, conn, hist>>

\* mnt_path_local up to the loop of prepend_mnt_path
WalkStart(cpu, file) ==
    /\ pc[cpu] = "idle"
    /\ pc' = [pc EXCEPT ![cpu] = "mnt_round"]
    /\ frame' = [frame EXCEPT ![cpu] =
                    [file |-> file,
                     data |-> mnt_path_data(file, percpu_slot(cpu), MAX_BUF_LEN, MAX_BUF_LEN),
                     i |-> 0,
                     bf0 |-> buffer_heap_map[percpu_slot(cpu)],
                     mixed |-> FALSE,
                     result |-> NULL]]
    /\ last' = [NoLast EXCEPT !.kind = "walk_start"]
    /\ nev' = nev + 1
    /\ UNCHANGED <<buffer_heap_map, WalkRest>>

\* one round of the loop: mnt_path_read on the slot data.bf points to
WalkRound(cpu) ==
    LET f == frame[cpu]
        slot == f.data.bf
    IN  /\ pc[cpu] = "mnt_round"
        /\ \E r \in {mnt_path_read([f.data EXCEPT !.bf = buffer_heap_map[slot]], f.file.ns)} :
              /\ buffer_heap_map' = [buffer_heap_map EXCEPT ![slot] = r.data.bf]
              /\ frame' = [frame EXCEPT ![cpu] =
                              [f EXCEPT !.data = [r.data EXCEPT !.bf = slot], !.i = f.i + 1,
                                        !.mixed = f.mixed \/ \E c \in Cpus \ {cpu} :
                                                                pc[c] # "idle"]]
              /\ pc' = [pc EXCEPT ![cpu] =
                           IF walk_continues(r.ret, f.i) THEN "mnt_round" ELSE "mnt_end"]
        /\ last' = [NoLast EXCEPT !.kind = "walk_round"]
        /\ UNCHANGED <<nev, WalkRest>>

\* what a walk gives: error, length and bytes of the path, and the key's mnt
WalkResult(l, i) ==
    [error |-> l.error, buflen |-> l.buflen, path |-> PathOf(l),
     mnt |-> get_mnt_path_end(l).mnt, rounds |-> i]

\* the end of prepend_mnt_path, of mnt_path_local and of get_mnt_path
WalkEnd(cpu) ==
    LET f == frame[cpu]
        slot == f.data.bf
    IN  /\ pc[cpu] = "mnt_end"
        /\ \E l \in {mnt_path_local_end(
                        prepend_mnt_path_end([f.data EXCEPT !.bf = buffer_heap_map[slot]],
                                             MAX_BUF_LEN))} :
              frame' = [frame EXCEPT ![cpu] = [f EXCEPT !.result = <<WalkResult(l, f.i)>>]]
        /\ pc' = [pc EXCEPT ![cpu] = "idle"]
        /\ last' = [NoLast EXCEPT !.kind = "walk_end"]
        /\ UNCHANGED <<nev, buffer_heap_map, WalkRest>>

NextWalk ==
    \E cpu \in Cpus :
        \/ nev < MaxWalks /\ \E ns \in WalkChains : WalkStart(cpu, File(ns))
        \/ WalkRound(cpu)
        \/ WalkEnd(cpu)

SpecWalk == InitWalk /\ [][NextWalk]_vars

\* The walks of chains of short names, each CPU running the program it has
\* started to its end: a rooted chain, one of 9 levels, and cycles of 1 and 2
\* mounts.
FairChains ==
    {<<"a">>, <<"a", "data", "a", "data", "a", "data", "a", "data", "a">>,
     <<"a", CycleMark>>, <<"data", "a", CycleMark>>}

NextWalkFair ==
    \E cpu \in Cpus :
        \/ nev < MaxWalks /\ \E ns \in FairChains : WalkStart(cpu, File(ns))
        \/ WalkRound(cpu)
        \/ WalkEnd(cpu)

SpecWalkFair ==
    /\ InitWalk /\ [][NextWalkFair]_vars
    /\ \A cpu \in Cpus : WF_vars(WalkRound(cpu)) /\ WF_vars(WalkEnd(cpu))

\* C21: a walk never runs more than 8 rounds, leaves the loop after the
\* eighth at the latest, and every walk that has begun returns, whatever the
\* mount structure: rooted, deeper than 8, or cyclic.
C21_WalkTerminates ==
    /\ [](\A cpu \in Cpus :
            /\ frame[cpu].i <= PROBE_MNT_ITERATIONS
            /\ frame[cpu].i = PROBE_MNT_ITERATIONS => pc[cpu] # "mnt_round")
    /\ \A cpu \in Cpus : (pc[cpu] = "mnt_round") ~> (pc[cpu] = "idle")

\* a walk around a cycle of two mounts has returned after 8 rounds
C21_Witness ==
    \E cpu \in Cpus :
        /\ pc[cpu] = "idle"
        /\ frame[cpu].file = File(<<"data", "a", CycleMark>>)
        /\ frame[cpu].result # NULL
        /\ frame[cpu].result[1].rounds = PROBE_MNT_ITERATIONS
        /\ frame[cpu].result[1].error = UNRESOLVED_PATH_COMPONENTS

\* the walk gave what l, the return of mnt_path_local run alone, gives
SameAsAlone(res, l) ==
    /\ res.error = l.error
    /\ res.buflen = l.buflen
    /\ res.path = PathOf(l)
    /\ res.mnt = get_mnt_path_end(l).mnt

\* C22: whatever the interleaving of the rounds of walks on different CPUs,
\* each walk gives the error, length, path and key bytes that mnt_path_local
\* gives when it runs alone on the content its CPU's slot had at the start.
C22_WalksDoNotInterfere ==
    \A cpu \in Cpus :
        frame[cpu].result # NULL =>
            SameAsAlone(frame[cpu].result[1], mnt_path_local(frame[cpu].file, frame[cpu].bf0))

\* two walks, rounds of the one run between rounds of the other, both done
C22_Witness ==
    /\ frame[1].result # NULL /\ frame[2].result # NULL
    /\ frame[1].mixed /\ frame[2].mixed
    /\ frame[1].file # frame[2].file
    /\ frame[1].result[1].buflen > 0 /\ frame[2].result[1].buflen > 0

(***************************************************************************)
(* Claim on the records as they appear in the tables                       *)
(***************************************************************************)
VfsMapNames == {"write", "read", "open", "create", "unlink"}

\* the record an invocation with locals f inserts when it finds none
NewEventOf(f) ==
    IF f.map \in {"write", "read"} THEN rw_new_event(S64(f.ret)) ELSE inode_new_event(f.ret)

\* a key that the step makes present in map name was inserted by a CPU whose
\* invocation is at its insert, with the new_event of that invocation
C23_Step(name) ==
    \A key \in (DOMAIN VfsMapNext(name)) \ (DOMAIN VfsMap(name)) :
        \E cpu \in Cpus :
            /\ pc[cpu] \in {"rw_insert", "inode_insert"}
            /\ pc'[cpu] = "idle"
            /\ frame[cpu].map = name /\ frame[cpu].key = key
            /\ VfsMapNext(name)[key] = NewEventOf(frame[cpu])
            /\ VfsMapNext(name)[key].calls = U64(1)
            /\ name \in {"write", "read"} =>
                   \/ /\ frame[cpu].ret >= 0
                      /\ VfsMapNext(name)[key].bytes = U64(frame[cpu].ret)
                      /\ VfsMapNext(name)[key].errors = Zero64
                   \/ /\ frame[cpu].ret < 0
                      /\ VfsMapNext(name)[key].bytes = Zero64
                      /\ VfsMapNext(name)[key].errors = U64(1)

\* C23: a key that becomes present in a table has, from that step on, the
\* record of the event that created it (for a read or write: calls = 1 and
\* bytes = the return value, or calls = 1 and errors = 1); no record of any
\* table ever has calls = 0.
C23_SeededRecord ==
    /\ [](\A name \in VfsMapNames : \A key \in DOMAIN VfsMap(name) :
              VfsMap(name)[key].calls # Zero64)
    /\ [][\A name \in VfsMapNames : C23_Step(name)]_vars

\* a record of 100 bytes just inserted while another CPU is in its own
\* invocation on the same key
C23_Witness ==
    \E cpu \in Cpus, key \in DOMAIN write_accumulator :
        /\ write_accumulator[key] = rw_new_event(S64(100))
        /\ pc[cpu] \in {"rw_insert", "rw_add_calls"}
        /\ frame[cpu].key = key

(***************************************************************************)
(* Claim on the bytes of the key's mount point                             *)
(***************************************************************************)
\* the levels of chain ns that the 8 rounds of a walk reach
WalkedLevels(ns) ==
    SubSeq(ns, 1, IF Len(ns) > PROBE_MNT_ITERATIONS THEN PROBE_MNT_ITERATIONS ELSE Len(ns))

\* C24: the mnt field of the key of every read or write that goes on to the
\* tables holds the first 64 bytes of the path of the levels walked by this
\* invocation, or all of the path followed by zero bytes only, whatever an
\* earlier walk left in the CPU's scratch buffer.
C24_KeyHoldsThisPath ==
    [][(nev' = nev + 1 /\ last'.kind = "rw" /\ last'.go) =>
           /\ last'.key.mnt = KeyMnt(TruePath(WalkedLevels(walk.file.ns)))
           /\ last'.key \in DOMAIN (IF last'.type = MODE_WRITE THEN write_accumulator'
                                    ELSE read_accumulator')]_vars

\* a read on /scratch after an event on a file nine mounts deep, whose path
\* of more than 1000 bytes is still in the scratch buffer
C24_Witness ==
    /\ last.kind = "rw" /\ last.go /\ nev = 2
    /\ walk.file.ns = <<"scratch">>
    /\ last.key.mnt = KeyMnt(<<47>> \o d_name("scratch"))
    /\ last.key \in DOMAIN read_accumulator
    /\ Len(buffer_heap_map[1]) > 1000

(***************************************************************************)
(* prepend_name on its own: one call on the scratch buffer of CPU 1, full  *)
(* of the bytes of an earlier walk (all 1), for name lengths and remaining *)
(* lengths around 0 and 256.  The name's bytes are none of 0, 1 and '/'.   *)
(***************************************************************************)
PrependNameLens == {0 - 1, 0, 1, 2, 3, 255, 256, 257}
PrependBufLens == {0, 1, 2, 3, 200, 255, 256, 257, 300}

\* what the cursor's offset exceeds the remaining length by
PrependSlacks == {0, 16}

TestName(n) == [i \in 1..n |-> 2 + (i % 40)]

StaleBuf == [i \in 1..MAX_BUF_LEN |-> 1]

InitPrepend ==
    /\ big_endian = FALSE
    /\ conf_map = ConfV2
    /\ buffer_heap_map = [c \in Cpus |-> StaleBuf]
    /\ InitMaps
    /\ socks = [s \in SockNames |-> WithCounters(TcpSock, Counters(0, 0, 0, 0, 0, 0))]
    /\ pc = [c \in Cpus |-> "idle"]
    /\ frame = [c \in Cpus |-> NoFrame]
    /\ walk \in {[phase |-> "args", bufptr |-> buflen + slack, buflen |-> buflen,
                  name |-> TestName(IF namelen < 0 THEN 0 ELSE namelen),
                  namelen |-> namelen] :
                    buflen \in PrependBufLens, slack \in PrependSlacks,
                    namelen \in PrependNameLens}
    /\ conn = NoConn
    /\ last = NoLast
    /\ hist = EmptyMap
    /\ nev = 0

\* error = prepend_name(data->bf, &data->bptr, &data->blen, name, len) in a
\* round of the walk, and what mnt_path_read and prepend_mnt_path make of it
PrependCall ==
    /\ walk.phase = "args"
    /\ \E r \in {prepend_name(buffer_heap_map[1], walk.bufptr, walk.buflen,
                              walk.name, walk.namelen)} :
       \E rd \in {mnt_path_read_end([bf |-> buffer_heap_map[1], mnt |-> 1, prev_de |-> NULL,
                                     bptr |-> walk.bufptr, blen |-> walk.buflen,
                                     resolved |-> FALSE],
                                    <<"a">>, <<"a">>, r)} :
          /\ walk' = [phase |-> "done", bufptr |-> walk.bufptr, buflen |-> walk.buflen,
                      name |-> walk.name, namelen |-> walk.namelen,
                      err |-> r.err, newptr |-> r.bufptr, newlen |-> r.buflen,
                      ret |-> rd.ret,
                      error |-> prepend_mnt_path_end(rd.data, MAX_BUF_LEN).error]
          /\ buffer_heap_map' = [buffer_heap_map EXCEPT ![1] = r.buf]
    /\ nev' = nev + 1
    /\ UNCHANGED <<big_endian, conf_map, maps, socks, pc, frame, conn, last, hist>>

NextPrepend == PrependCall

SpecPrepend == InitPrepend /\ [][NextPrepend]_vars

\* the bytes of the buffer of CPU 1 at offsets from .. to - 1
BufRange(from, to) == ReadBytes(buffer_heap_map[1], from, to - from)

\* the buffer of CPU 1 is as it was outside offsets from .. to - 1
StaleOutside(from, to) ==
    /\ Len(buffer_heap_map[1]) = MAX_BUF_LEN
    /\ \A o \in 0..(MAX_BUF_LEN - 1) : (o < from \/ o >= to) => BufByte(buffer_heap_map[1], o) = 1

\* the last n bytes of name
NameTail(name, n) == SubSeq(name, Len(name) - n + 1, Len(name))

\* C25: a call with a name of an accepted length that does not fit with its
\* separator in the remaining length copies the last bytes of the name, as
\* many as the remaining length, to just below the cursor, writes no '/' and
\* nothing else, returns an error, and the walk stops unresolved.
C25_TailKeptOnOverflow ==
    (/\ walk.phase = "done"
     /\ walk.namelen >= 0 /\ walk.namelen <= 256
     /\ walk.namelen >= walk.buflen) =>
        /\ walk.err # 0
        /\ walk.newptr = walk.bufptr - walk.buflen
        /\ BufRange(walk.newptr, walk.bufptr) = NameTail(walk.name, walk.buflen)
        /\ StaleOutside(walk.newptr, walk.bufptr)
        /\ walk.ret = 1
        /\ walk.error = UNRESOLVED_PATH_COMPONENTS \/ walk.newptr = MAX_BUF_LEN

\* the same for names of at most 255 bytes
C25_TailKeptUpTo255 == walk.namelen < 256 => C25_TailKeptOnOverflow

\* C27: a call with a name of an accepted length that fits with its separator
\* moves the cursor back by the length + 1 and writes '/' and the whole name
\* there, every byte between the new and the old cursor and no other; a call
\* with a length below 0 or above 256 returns an error and writes nothing.
C27_CopiedEqualsMoved ==
    walk.phase = "done" =>
        /\ (walk.namelen >= 0 /\ walk.namelen <= 256 /\ walk.namelen < walk.buflen) =>
               /\ walk.err = 0
               /\ walk.newptr = walk.bufptr - (walk.namelen + 1)
               /\ walk.newlen = walk.buflen - (walk.namelen + 1)
               /\ BufRange(walk.newptr, walk.bufptr) = <<47>> \o walk.name
               /\ StaleOutside(walk.newptr, walk.bufptr)
        /\ (walk.namelen < 0 \/ walk.namelen > 256) =>
               /\ walk.err # 0
               /\ walk.newptr = walk.bufptr /\ walk.newlen = walk.buflen
               /\ StaleOutside(0, 0)

\* the same for names of at most 255 bytes
C27_CopiedEqualsMovedUpTo255 == walk.namelen # 256 => C27_CopiedEqualsMoved

(***************************************************************************)
(* Claim on the cursor and the remaining length during a walk              *)
(***************************************************************************)
\* the step is a round of the walk on cpu
RoundOf(cpu) == pc[cpu] = "mnt_round" /\ frame'[cpu].i = frame[cpu].i + 1

\* the round of the walk on cpu that the step runs either finds the end of
\* the chain, or calls prepend_name, which returns 0 (none of its tests of
\* the space and of the offset fails) and writes from the new cursor up to the
\* old one, below offset MAX_BUF_LEN
C28_Round(cpu, err) ==
    RoundOf(cpu) =>
        \/ frame'[cpu].data.resolved
        \/ /\ err = 0
           /\ frame'[cpu].data.bptr >= 0
           /\ frame'[cpu].data.bptr < frame[cpu].data.bptr
           /\ frame[cpu].data.bptr <= MAX_BUF_LEN
           /\ Len(buffer_heap_map'[cpu]) = MAX_BUF_LEN - frame'[cpu].data.bptr
                  \/ Len(buffer_heap_map'[cpu]) = Len(buffer_heap_map[cpu])

\* what prepend_name returns when the walk with locals f runs its next round
\* on a slot holding bf
RoundErr(f, bf) ==
    prepend_name(bf, f.data.bptr, f.data.blen,
                 d_name(mnt_mountpoint(f.file.ns, f.data.mnt)),
                 d_name_len(mnt_mountpoint(f.file.ns, f.data.mnt))).err

\* C28: all through a walk the remaining length equals the cursor's offset in
\* the scratch buffer, which lies in 0..4096; no call of prepend_name in a
\* walk fails one of its tests, and none writes at offset 4096 or above.
C28_LengthIsOffset ==
    /\ [](\A cpu \in Cpus :
            pc[cpu] # "idle" =>
                /\ frame[cpu].data.blen = frame[cpu].data.bptr
                /\ frame[cpu].data.bptr \in 0..MAX_BUF_LEN)
    /\ [][\A cpu \in Cpus :
            RoundOf(cpu) => C28_Round(cpu, RoundErr(frame[cpu], buffer_heap_map[cpu]))]_vars

\* a walk of 9 levels at its end: 8 rounds, 4 * 256 + 4 * 2 bytes below 4096
C28_Witness ==
    \E cpu \in Cpus :
        /\ pc[cpu] = "mnt_end"
        /\ frame[cpu].i = PROBE_MNT_ITERATIONS
        /\ frame[cpu].data.bptr = MAX_BUF_LEN - (4 * 256 + 4 * 2)
        /\ frame[cpu].data.blen = frame[cpu].data.bptr

(***************************************************************************)
(* Claim on the choice between the two hierarchies                         *)
(***************************************************************************)
\* the configuration selects the unified hierarchy
UnifiedConf == conf_map # NULL /\ conf_map[1].cgrp_fs_magic = U64(CGROUP2_SUPER_MAGIC)

\* the index the legacy walk is called with: the configured one as an int,
\* 1 when there is no configuration record
ConfiguredIndex == IF conf_map = NULL THEN U32(1) ELSE Trunc32(conf_map[1].cgrp_subsys_idx)

\* C26: the resolver returns what bpf_get_current_cgroup_id gives, reading no
\* link itself, exactly when the configured magic is CGROUP2_SUPER_MAGIC;
\* with any other magic or no configuration record it returns what the legacy
\* walk gives at the configured index, index 1 when there is no record.
C26_HierarchyChoice ==
    CgReturned =>
        /\ UnifiedConf =>
               /\ last.cgid = bpf_get_current_cgroup_id(frame[1].task)
               /\ last.key = <<>>
        /\ ~UnifiedConf =>
               /\ last.cgid = ceems_get_current_cgroupv1_id(frame[1].task, ConfiguredIndex)
               /\ last.key # <<>> /\ last.key[1] = "cgroups"
        /\ (conf_map = NULL /\ frame[1].task = TaskPerSubsys) => last.cgid = U64(100 + 1)
        /\ (conf_map \in {ConfNoMagic, ConfHighMagic} /\ frame[1].task = TaskPerSubsys)
               => last.cgid = U64(100 + 4)

\* no configuration record: the cgroup of subsystem 1
C26_Witness ==
    /\ CgReturned /\ conf_map = NULL
    /\ frame[1].task = TaskPerSubsys
    /\ last.cgid = U64(100 + 1)
    /\ last.key = <<"cgroups", "subsys", "cgroup", "kn", "id">>

(***************************************************************************)
(* Claims on the inode and UDP handlers                                    *)
(***************************************************************************)
\* map new is map old with the record of key replaced by rec, or with key and
\* rec added
SetsOnly(old, new, key, rec) ==
    /\ DOMAIN new = (DOMAIN old) \cup {key}
    /\ new[key] = rec
    /\ \A k \in DOMAIN old : k # key => new[k] = old[k]

\* the inode table an event type belongs to
InodeTableOf(type) ==
    CASE type = MODE_OPEN -> "open"
      [] type \in {MODE_CREATE, MODE_MKDIR} -> "create"
      [] type \in {MODE_UNLINK, MODE_RMDIR} -> "unlink"

\* the record of key in old after one more call, failed or not
InodeRecordAfter(old, key, failed) ==
    IF key \in DOMAIN old
    THEN [calls |-> Add64(old[key].calls, U64(1)),
          errors |-> IF failed THEN Add64(old[key].errors, U64(1)) ELSE old[key].errors]
    ELSE [calls |-> U64(1), errors |-> IF failed THEN U64(1) ELSE Zero64]

\* C29: an inode event of a cgroup whose id is neither 0 nor 1 changes the
\* record of that id, and nothing else, in the open table (open), the create
\* table (create, mkdir) or the unlink table (unlink, rmdir): calls grows by
\* 1, errors by 1 exactly when the return value is not 0; an event of cgroup
\* 0 or 1 changes no table.
C29_InodeRouting ==
    [][(nev' = nev + 1 /\ last'.kind = "inode") =>
          LET cid == Trunc32(last'.cgid)
              name == InodeTableOf(last'.type)
          IN  /\ last'.go <=> cid \notin {U32(0), U32(1)}
              /\ ~last'.go => UNCHANGED maps
              /\ last'.go =>
                    /\ SetsOnly(VfsMap(name), VfsMapNext(name), cid,
                                InodeRecordAfter(VfsMap(name), cid, last'.ret # 0))
                    /\ \A other \in VfsMapNames \ {name} : VfsMapNext(other) = VfsMap(other)
                    /\ UNCHANGED <<net_maps, socket_accumulator>>]_vars

\* a mkdir that failed after a create that did not: one record, in the
\* create table only
C29_Witness ==
    /\ last.kind = "inode" /\ last.type = MODE_MKDIR /\ last.ret # 0
    /\ create_accumulator = (U32(42) :> [calls |-> U64(2), errors |-> U64(1)])
    /\ open_accumulator = EmptyMap /\ unlink_accumulator = EmptyMap

\* the record of key in old after one more UDP packet of ret bytes
UdpRecordAfter(old, key, ret) ==
    IF key \in DOMAIN old
    THEN [packets |-> Add64(old[key].packets, U64(1)),
          bytes |-> Add64(old[key].bytes, U64(ret))]
    ELSE [packets |-> U64(1), bytes |-> U64(ret)]

\* C30 for a step of handle_udp_event on the table old of its mode, which
\* becomes new, the other table of the two being same before and after
C30_Step(old, new, otherOld, otherNew) ==
    LET cid == Trunc32(last'.cgid)
        key == [cid |-> cid, proto |-> IPPROTO_UDP, fam |-> last'.fam]
    IN  /\ last'.ret <= 0 => UNCHANGED maps
        /\ (last'.ret > 0 /\ cid # U32(0)) =>
              /\ SetsOnly(old, new, key, UdpRecordAfter(old, key, last'.ret))
              /\ otherNew = otherOld
              /\ UNCHANGED <<vfs_maps, retrans_accumulator, socket_accumulator>>

\* C30: a UDP event with a return value above 0 of a cgroup whose id is not 0
\* adds 1 packet and the return value in bytes to the record (cgroup, UDP,
\* family) of the ingress table (ingress mode) or of the egress table (egress
\* mode) and changes nothing else; one with a return value of 0 or below
\* changes no table.
C30_UdpAccounting ==
    [][(nev' = nev + 1 /\ last'.kind = "udp") =>
          IF last'.type = MODE_INGRESS
          THEN C30_Step(ingress_accumulator, ingress_accumulator',
                        egress_accumulator, egress_accumulator')
          ELSE C30_Step(egress_accumulator, egress_accumulator',
                        ingress_accumulator, ingress_accumulator')]_vars

\* two datagrams of 100 bytes received over IPv6 by the same cgroup
C30_Witness ==
    /\ last.kind = "udp" /\ last.type = MODE_INGRESS /\ last.ret = 100
    /\ [cid |-> U32(42), proto |-> IPPROTO_UDP, fam |-> AF_INET6] \in DOMAIN ingress_accumulator
    /\ ingress_accumulator[[cid |-> U32(42), proto |-> IPPROTO_UDP, fam |-> AF_INET6]]
           = [packets |-> U64(2), bytes |-> U64(200)]
    /\ egress_accumulator = EmptyMap

(***************************************************************************)
(* errors <= calls in the five vfs tables, SpecConc.  The invocations of   *)
(* SpecConc stop between any two map operations, so the states checked     *)
(* include those where one invocation has added its call and not yet its   *)
(* error while another one inserts or updates the same record.  The tables *)
(* stay below max_entries: no record is evicted while a pointer to it is   *)
(* held.                                                                   *)
(***************************************************************************)

\* errors <= calls for record rec
ErrorsWithinCalls(rec) == Leq64(rec.errors, rec.calls)

\* C31: in every reachable state, the intermediate states of concurrent
\* updates included, each record of the read, write, open, create and unlink
\* tables has errors <= calls.
C31_ErrorsAtMostCalls ==
    \A name \in VfsMapNames : \A k \in DOMAIN VfsMap(name) :
        ErrorsWithinCalls(VfsMap(name)[k])

\* an invocation of a failed call stands between its two additions on a record
\* whose errors were equal to its calls before it: calls = errors + 1 now,
\* while the other cpu is inside an invocation on the same table too
C31_Witness ==
    \E cpu \in Cpus, other \in Cpus :
        /\ cpu # other
        /\ pc[cpu] \in {"rw_add_result", "inode_add_result"}
        /\ pc[other] # "idle"
        /\ frame[other].map = frame[cpu].map
        /\ IF pc[cpu] = "rw_add_result" THEN frame[cpu].ret < 0 ELSE frame[cpu].ret # 0
        /\ frame[cpu].event # NULL
        /\ LET rec == VfsMap(frame[cpu].map)[frame[cpu].event[1]]
           IN  /\ rec.calls = Add64(rec.errors, U64(1))
               /\ rec.errors # Zero64

(***************************************************************************)
(* One TCP connection observed by the tasks of one cgroup, SpecFlow.  The  *)
(* kernel moves traffic on the connection between two observations (its    *)
(* counters never go down) and may evict the connection's record from      *)
(* socket_accumulator, an LRU map of MAX_SOCKET_CONN_ENTRIES entries that  *)
(* other connections fill.  conn remembers whether an eviction took place. *)
(***************************************************************************)
MaxFlowEvents == 4

FlowTask == TaskInCgroup(U64(42))

\* cumulative counters of the connection as the observations find them; from
\* the first to the second the bytes sent grow and the segments sent do not
FlowCounters ==
    {Counters(10, 4, 20, 8, 0, 0),
     Counters(15, 4, 20, 9, 1, 3),
     Counters(15, 6, 30, 12, 1, 3),
     Counters(16, 7, 31, 13, 1, 4)}

InitFlow ==
    /\ InitBase({FALSE}, {ConfV2}, Counters(0, 0, 0, 0, 0, 0))
    /\ walk = NoWalk
    /\ conn = [phase |-> "flow"]

\* the LRU policy of socket_accumulator drops the record of tuple t to make
\* room for the record of another connection
SockEvict(t) ==
    /\ t \in DOMAIN socket_accumulator
    /\ socket_accumulator' = [x \in (DOMAIN socket_accumulator) \ {t} |->
                                 socket_accumulator[x]]
    /\ conn' = [phase |-> "evicted"]
    /\ last' = [NoLast EXCEPT !.kind = "evict", !.key = t]
    /\ UNCHANGED <<big_endian, conf_map, buffer_heap_map, vfs_maps, net_maps, socks,
                   pc, frame, walk, hist, nev>>

NextFlow ==
    \/ nev < MaxFlowEvents /\ \E s \in SockNames : TcpEvent(FlowTask, s)
    \/ \E s \in SockNames, c \in FlowCounters : SockTraffic(s, c)
    \/ \E t \in DOMAIN socket_accumulator : SockEvict(t)

SpecFlow == InitFlow /\ [][NextFlow]_vars

\* the key of the connection's records in the three aggregation maps
FlowKey == [cid |-> Trunc32(U64(42)), proto |-> IPPROTO_TCP, fam |-> AF_INET]

\* record rec holds packets and bytes
Holds(map, key, packets, bytes) ==
    /\ key \in DOMAIN map
    /\ map[key] = [packets |-> packets, bytes |-> bytes]

\* C32: one TCP socket observed one invocation at a time by tasks of one
\* cgroup, its counters never lower, nothing evicted: after every observation
\* the ingress, egress and retransmission records of the key hold the socket's
\* latest cumulative packets and bytes, also when an observation's packet
\* delta is 0 and its byte delta is not.
C32_RecordsHoldCumulative ==
    (last.kind = "tcp" /\ last.go /\ conn.phase = "flow") =>
        /\ Holds(ingress_accumulator, FlowKey, last.cur.packets_in, last.cur.bytes_received)
        /\ Holds(egress_accumulator, FlowKey, last.cur.packets_out, last.cur.bytes_sent)
        /\ Holds(retrans_accumulator, FlowKey, last.cur.total_retrans, last.cur.bytes_retrans)

\* what does hold under the same conditions: the packets of the three records
\* are the cumulative ones, and the bytes are never above the cumulative ones
C32_PacketsExactBytesAtMost ==
    (last.kind = "tcp" /\ last.go /\ conn.phase = "flow") =>
        /\ FlowKey \in DOMAIN ingress_accumulator
        /\ FlowKey \in DOMAIN egress_accumulator
        /\ FlowKey \in DOMAIN retrans_accumulator
        /\ ingress_accumulator[FlowKey].packets = last.cur.packets_in
        /\ egress_accumulator[FlowKey].packets = last.cur.packets_out
        /\ retrans_accumulator[FlowKey].packets = last.cur.total_retrans
        /\ Leq64(ingress_accumulator[FlowKey].bytes, last.cur.bytes_received)
        /\ Leq64(egress_accumulator[FlowKey].bytes, last.cur.bytes_sent)
        /\ Leq64(retrans_accumulator[FlowKey].bytes, last.cur.bytes_retrans)

\* the observation that found 4 segments and 9 bytes sent after one that found
\* 4 and 8: the egress record stays at 8 bytes
C32_LostBytes ==
    /\ last.kind = "tcp" /\ last.go /\ last.found /\ conn.phase = "flow"
    /\ last.incr.packets_out = Zero64 /\ last.incr.bytes_sent = U64(1)
    /\ egress_accumulator[FlowKey] = [packets |-> U64(4), bytes |-> U64(8)]
    /\ socket_accumulator[last.key].bytes_sent = U64(9)

\* the record of FlowKey after an increment of packets and bytes reached it
GrownBy(old, new, packets, bytes) ==
    /\ FlowKey \in DOMAIN old
    /\ FlowKey \in DOMAIN new
    /\ new[FlowKey] = IF Lt64(Zero64, packets)
                      THEN [packets |-> Add64(old[FlowKey].packets, packets),
                            bytes |-> Add64(old[FlowKey].bytes, bytes)]
                      ELSE old[FlowKey]

\* an observation of the connection, its record evicted and not yet stored again
C34_Step ==
    (/\ conn.phase = "evicted" /\ nev' = nev + 1
     /\ last'.kind = "tcp" /\ last'.go
     /\ last'.key \notin DOMAIN socket_accumulator)
    => /\ last'.incr = last'.cur
       /\ last'.cur = sock_counters(socks["tcp1"])
       /\ last'.key \in DOMAIN socket_accumulator'
       /\ socket_accumulator'[last'.key] = last'.cur
       /\ GrownBy(ingress_accumulator, ingress_accumulator',
                  last'.cur.packets_in, last'.cur.bytes_received)
       /\ GrownBy(egress_accumulator, egress_accumulator',
                  last'.cur.packets_out, last'.cur.bytes_sent)
       /\ GrownBy(retrans_accumulator, retrans_accumulator',
                  last'.cur.total_retrans, last'.cur.bytes_retrans)

\* C34: when the baseline record of a tuple was evicted from
\* socket_accumulator and the socket is still open, the next observation of
\* the tuple yields the socket's whole cumulative counters as its increment
\* and the aggregation records, which hold the earlier traffic already, grow
\* by them again.
C34_EvictionCountsTwice == [][C34_Step]_vars

\* observed at 10 packets in, evicted, observed again at 15: the ingress
\* record holds 25 packets and 40 bytes for a socket that received 15 and 20
C34_Witness ==
    /\ conn.phase = "evicted"
    /\ last.kind = "tcp" /\ last.go /\ ~last.found
    /\ last.incr = last.cur
    /\ last.cur.packets_in = U64(15) /\ last.cur.bytes_received = U64(20)
    /\ ingress_accumulator[FlowKey] = [packets |-> U64(25), bytes |-> U64(40)]

(***************************************************************************)
(* read_conn_stats on several CPUs at once, SpecStats.  An invocation      *)
(* reads the tuple, then the six counters of the socket one                *)
(* bpf_probe_read_kernel at a time, looks the tuple up, and either inserts *)
(* the counters (tuple absent) or computes the increment from the record   *)
(* it found, one load of the record per field, and overwrites the record,  *)
(* one store per field.  The record is read and written through the        *)
(* pointer the lookup returned, with no lock and no atomic operation:      *)
(* between any two of these reads, loads and stores the other CPUs run     *)
(* theirs.  The accesses race, so the source does not fix the order in     *)
(* which a build makes the accesses to different fields: an invocation     *)
(* makes its twelve accesses in any order, the load of a field before the  *)
(* store of that field, and frame[cpu] keeps the fields it has loaded and  *)
(* those it has stored.  hist sums the increments the invocations returned *)
(* and conn keeps the baseline the run started from.                       *)
(***************************************************************************)
MaxStatsCalls == 2

\* how many times the kernel moves the counters of the socket while an
\* invocation is running; between invocations it moves them freely
MaxRacingTraffic == 1

\* the socket as the record at hand has it, and after 5 more packets of 10
\* bytes came in
StatsCounters == {Counters(10, 4, 20, 8, 0, 0), Counters(15, 4, 30, 8, 0, 0)}

\* field by field sum of two conn_stats
AddStats(a, b) == [f \in StatFields |-> Add64(a[f], b[f])]

\* the tuple of the connection of the model
FlowTuple == read_conn_tuple(ZeroTuple, TcpSock, FALSE).t

\* the counters in the order of the source
StatOrder == <<"packets_in", "packets_out", "bytes_received", "bytes_sent",
               "total_retrans", "bytes_retrans">>

\* i is the counter the next read of the socket is about, loaded the fields of
\* the record the invocation has loaded, stored those it has stored
NoStatsFrame ==
    [t |-> ZeroTuple, cur |-> ZeroStats, stats |-> NULL, incr |-> ZeroStats, i |-> 1,
     loaded |-> {}, stored |-> {}]

\* the tuple is absent, or present with the counters of an earlier observation
\* and the socket has received 5 packets since
InitStats ==
    /\ big_endian = FALSE
    /\ conf_map = ConfV2
    /\ buffer_heap_map = [c \in Cpus |-> <<>>]
    /\ write_accumulator = EmptyMap /\ read_accumulator = EmptyMap
    /\ open_accumulator = EmptyMap /\ create_accumulator = EmptyMap
    /\ unlink_accumulator = EmptyMap
    /\ ingress_accumulator = EmptyMap /\ egress_accumulator = EmptyMap
    /\ retrans_accumulator = EmptyMap
    /\ \E present \in BOOLEAN :
          /\ socket_accumulator =
                IF present
                THEN FlowTuple :> sock_counters(WithCounters(TcpSock, Counters(10, 4, 20, 8, 0, 0)))
                ELSE EmptyMap
          /\ socks = [s \in SockNames |->
                         WithCounters(TcpSock, IF present THEN Counters(15, 4, 30, 8, 0, 0)
                                               ELSE Counters(10, 4, 20, 8, 0, 0))]
          /\ conn = [phase |-> "stats", overlap |-> FALSE, racing |-> 0,
                     initial |-> IF present
                                 THEN sock_counters(WithCounters(TcpSock,
                                                                 Counters(10, 4, 20, 8, 0, 0)))
                                 ELSE ZeroStats]
    /\ pc = [c \in Cpus |-> "idle"]
    /\ frame = [c \in Cpus |-> NoStatsFrame]
    /\ walk = NoWalk
    /\ last = NoLast
    /\ hist = ZeroStats
    /\ nev = 0

StatsRest == <<big_endian, conf_map, buffer_heap_map, vfs_maps, net_maps, socks, walk, last>>

\* read_conn_stats returns incr on cpu
StatsReturn(cpu, incr) ==
    /\ pc' = [pc EXCEPT ![cpu] = "idle"]
    /\ frame' = [frame EXCEPT ![cpu] = NoStatsFrame]
    /\ hist' = AddStats(hist, incr)

\* read_conn_tuple, which must return 0
StatsStart(cpu, s) ==
    \E tr \in {read_conn_tuple(ZeroTuple, socks[s], big_endian)} :
        /\ pc[cpu] = "idle"
        /\ tr.err = 0
        /\ pc' = [pc EXCEPT ![cpu] = "stats_read"]
        /\ frame' = [frame EXCEPT ![cpu] = [NoStatsFrame EXCEPT !.t = tr.t]]
        /\ conn' = [conn EXCEPT !.overlap = @ \/ \E c \in Cpus : pc[c] # "idle"]
        /\ nev' = nev + 1
        /\ UNCHANGED <<socket_accumulator, hist, StatsRest>>

\* one bpf_probe_read_kernel of a counter of the socket, the __u32 ones cast
\* to __u64 where they are used
StatsRead(cpu, s) ==
    LET i == frame[cpu].i
        f == StatOrder[i]
    IN  /\ pc[cpu] = "stats_read"
        /\ frame' = [frame EXCEPT ![cpu].cur[f] = sock_counters(socks[s])[f],
                                  ![cpu].i = IF i < Len(StatOrder) THEN i + 1 ELSE 1]
        /\ pc' = [pc EXCEPT ![cpu] = IF i < Len(StatOrder) THEN "stats_read"
                                     ELSE "stats_lookup"]
        /\ UNCHANGED <<socket_accumulator, conn, hist, nev, StatsRest>>

\* stats = bpf_map_lookup_elem(&socket_accumulator, &t)
StatsLookup(cpu) ==
    LET stats == bpf_map_lookup_elem(socket_accumulator, frame[cpu].t)
    IN  /\ pc[cpu] = "stats_lookup"
        /\ frame' = [frame EXCEPT ![cpu].stats = stats]
        /\ pc' = [pc EXCEPT ![cpu] = IF stats = NULL THEN "stats_insert" ELSE "stats_update"]
        /\ UNCHANGED <<socket_accumulator, conn, hist, nev, StatsRest>>

\* the !stats branch: incr_stats = the counters, bpf_map_update_elem(...,
\* BPF_NOEXIST) with its return value ignored, return 0
StatsInsert(cpu) ==
    /\ pc[cpu] = "stats_insert"
    /\ socket_accumulator' = bpf_map_update_elem(socket_accumulator, frame[cpu].t,
                                                 frame[cpu].cur)
    /\ StatsReturn(cpu, frame[cpu].cur)
    /\ UNCHANGED <<conn, nev, StatsRest>>

\* incr_stats->f = f - stats->f: the load of field f of the record, made at
\* any time before the store of f
StatsDelta(cpu, f) ==
    /\ pc[cpu] = "stats_update"
    /\ f \notin frame[cpu].loaded
    /\ frame' = [frame EXCEPT
                    ![cpu].incr[f] = Sub64(frame[cpu].cur[f],
                                           socket_accumulator[frame[cpu].stats[1]][f]),
                    ![cpu].loaded = @ \cup {f}]
    /\ UNCHANGED <<pc, socket_accumulator, conn, hist, nev, StatsRest>>

\* stats->f = f: the store into field f of the record, made at any time after
\* the load of f; return 0 once the six fields are stored
StatsStore(cpu, f) ==
    /\ pc[cpu] = "stats_update"
    /\ f \in frame[cpu].loaded \ frame[cpu].stored
    /\ socket_accumulator' =
          [socket_accumulator EXCEPT ![frame[cpu].stats[1]][f] = frame[cpu].cur[f]]
    /\ IF frame[cpu].stored \cup {f} # StatFields
       THEN /\ frame' = [frame EXCEPT ![cpu].stored = @ \cup {f}]
            /\ UNCHANGED <<pc, hist>>
       ELSE StatsReturn(cpu, frame[cpu].incr)
    /\ UNCHANGED <<conn, nev, StatsRest>>

\* the kernel moves traffic on the connection
StatsTraffic(s, c) ==
    LET racing == \E cpu \in Cpus : pc[cpu] # "idle"
    IN  /\ racing => conn.racing < MaxRacingTraffic
        /\ \A f \in StatFields : Leq64(sock_counters(socks[s])[f], sock_counters(c)[f])
        /\ socks[s] # WithCounters(socks[s], c)
        /\ socks' = [socks EXCEPT ![s] = WithCounters(@, c)]
        /\ conn' = [conn EXCEPT !.racing = IF racing THEN @ + 1 ELSE @]
        /\ UNCHANGED <<big_endian, conf_map, buffer_heap_map, maps, pc, frame, walk,
                       last, hist, nev>>

NextStats ==
    \/ \E cpu \in Cpus :
          \/ nev < MaxStatsCalls /\ \E s \in SockNames : StatsStart(cpu, s)
          \/ \E s \in SockNames : StatsRead(cpu, s)
          \/ StatsLookup(cpu)
          \/ StatsInsert(cpu)
          \/ \E f \in StatFields : StatsDelta(cpu, f)
          \/ \E f \in StatFields : StatsStore(cpu, f)
    \/ \E s \in SockNames, c \in StatsCounters : StatsTraffic(s, c)

SpecStats == InitStats /\ [][NextStats]_vars

\* every invocation has returned and at least one was made
StatsQuiet == nev > 0 /\ \A cpu \in Cpus : pc[cpu] = "idle"

\* the increments returned so far sum to the stored baseline minus the
\* baseline the run started from
YieldedIsBaselineGrowth ==
    /\ FlowTuple \in DOMAIN socket_accumulator
    /\ AddStats(conn.initial, hist) = socket_accumulator[FlowTuple]

\* C33: for any interleaving of two invocations of read_conn_stats on
\* different CPUs on the same tuple, absent or present at first, the
\* increments they yield sum to the final stored baseline minus the initial
\* one: no traffic is yielded twice, none is lost.
C33_NoDoubleYield == StatsQuiet => YieldedIsBaselineGrowth

\* what does hold: invocations that do not overlap yield the baseline's growth
C33_SequentialExact == (StatsQuiet /\ ~conn.overlap) => YieldedIsBaselineGrowth

\* two invocations both found the tuple absent and both returned the
\* counters: 20 packets in yielded for a socket that received 10
C33_YieldedTwice ==
    /\ StatsQuiet /\ conn.overlap /\ nev = 2
    /\ conn.initial = ZeroStats
    /\ socket_accumulator[FlowTuple].packets_in = U64(10)
    /\ hist.packets_in = U64(20)

(***************************************************************************)
(* Cgroups whose 64-bit identifiers agree in their low 32 bits, SpecNarrow.*)
(* The identifier of a cgroup is the identifier of its kernfs node, a      *)
(* 64-bit number whose high 32 bits the kernel raises each time the low 32 *)
(* bits wrap around; the programs keep (__u32) of it in their keys.        *)
(***************************************************************************)
MaxNarrowEvents == 2

\* the __u64 2^32 + n, for 0 <= n < 65536
Above32(n) == <<n, 0, 1, 0>>

\* cgroups 42 and 1 (the root), and three whose identifier is above 2^32
NarrowTasks ==
    {TaskInCgroup(U64(42)), TaskInCgroup(Above32(42)),
     TaskInCgroup(Above32(0)), TaskInCgroup(Above32(1)),
     TaskInCgroup(U64(1))}

InitNarrow == InitWith({FALSE}, {ConfV1, ConfV2}, Counters(10, 4, 20, 8, 0, 0))

NextNarrow ==
    /\ nev < MaxNarrowEvents
    /\ \/ \E task \in NarrowTasks, type \in {MODE_READ, MODE_WRITE} :
             RwEvent(1, task, File(<<"scratch">>), 100, type)
       \/ \E task \in NarrowTasks : InodeEvent(task, 0, MODE_OPEN)
       \/ \E task \in NarrowTasks, s \in SockNames : TcpEvent(task, s)

SpecNarrow == InitNarrow /\ [][NextNarrow]_vars

\* two events of the same program and type, one after the other, both recorded
TwoRecorded ==
    /\ nev' = nev + 1
    /\ last.go /\ last'.go
    /\ last.kind = last'.kind /\ last.type = last'.type

\* the step records each event it should: every event of a vfs program whose
\* identifier is neither 0 nor 1, every event of the TCP program whose
\* identifier is not 0
NothingDropped ==
    /\ (last'.kind \in {"rw", "inode"} /\ last'.cgid # Zero64 /\ last'.cgid # U64(1))
           => last'.go
    /\ (last'.kind = "tcp" /\ last'.cgid # Zero64) => last'.go

\* the second event went to another record than the first
OtherRecord ==
    /\ last.kind \in {"rw", "inode"} => last'.key # last.key
    /\ last.kind = "tcp" => Cardinality(DOMAIN ingress_accumulator') >= 2

\* C35: narrowing the resolved 64-bit cgroup identifier to the 32-bit key
\* field loses no attribution: two events whose 64-bit identifiers differ are
\* never accumulated under the same key, and a non-zero identifier whose low
\* 32 bits are 0 or 1 is not dropped as failed or root.
C35_NarrowingLosesNothing ==
    [][/\ nev' = nev + 1 => NothingDropped
       /\ (TwoRecorded /\ last.cgid # last'.cgid) => OtherRecord]_vars

\* what does hold: the key is the low 32 bits of the identifier, so events
\* are kept apart and recorded as far as these 32 bits tell
C35_LowBitsDecide ==
    [][/\ (nev' = nev + 1 /\ last'.kind \in {"rw", "inode"})
           => (last'.go <=> Trunc32(last'.cgid) \notin {U32(0), U32(1)})
       /\ (nev' = nev + 1 /\ last'.kind = "tcp")
           => (last'.go <=> Trunc32(last'.cgid) # U32(0))
       /\ (TwoRecorded /\ Trunc32(last.cgid) # Trunc32(last'.cgid)) => OtherRecord
       /\ (TwoRecorded /\ Trunc32(last.cgid) = Trunc32(last'.cgid)
                       /\ last.kind \in {"rw", "inode"}) => last'.key = last.key]_vars

\* an open of a task of cgroup 2^32 + 42 counted on the record of cgroup 42,
\* after an open of a task of cgroup 2^32 was dropped
C35_SharedRecord ==
    /\ last.kind = "inode" /\ last.go /\ last.found
    /\ last.cgid = Above32(42)
    /\ DOMAIN open_accumulator = {U32(42)}
    /\ open_accumulator[U32(42)].calls = U64(2)

\* C36: a read or write on a file whose mount is the global root mount (its
\* mount point is the root directory entry) resolves to a path of length 0
\* with error 0, whatever an earlier walk left in the scratch buffer, and the
\* event creates or updates no record of any map.
C36_RootMountNotRecorded ==
    [][(nev' = nev + 1 /\ last'.kind = "rw" /\ walk.file.ns = <<>>) =>
          \E r \in {mnt_path_local(walk.file, buffer_heap_map[1])} :
              /\ IS_ROOT(mnt_mountpoint(walk.file.ns, real_mount(walk.file.f_path_mnt)))
              /\ r.buflen = 0 /\ r.error = 0
              /\ r.buffer = MAX_BUF_LEN
              /\ r.bf = buffer_heap_map[1]
              /\ ~last'.go
              /\ UNCHANGED maps]_vars

\* a write of a task of cgroup 42 on /scratch was recorded and left its path
\* in the scratch buffer; the next one, on a file of the root mount, is dropped
C36_Witness ==
    /\ last.kind = "rw" /\ last.cgid = U64(42) /\ ~last.go
    /\ walk.file.ns = <<>>
    /\ nev = 2
    /\ buffer_heap_map[1] = <<47>> \o d_name("scratch")
    /\ [cid |-> U32(42), mnt |-> KeyMnt(<<47>> \o d_name("scratch"))]
           \in DOMAIN write_accumulator
    /\ \A key \in DOMAIN write_accumulator \cup DOMAIN read_accumulator :
           key.mnt # ZeroMnt

\* the 16 bytes of an IPv4-mapped address, ::ffff:a.b.c.d
IsMapped(in6) == SubSeq(in6, 1, 12) = <<0, 0, 0, 0, 0, 0, 0, 0, 0, 0, 255, 255>>

\* the halves h and l of the tuple are the address in6 as the socket holds it
KeptAsRead(h, l, in6) == [h |-> h, l |-> l] = read_in6_addr(in6, big_endian)

\* C37: read_conn_tuple rewrites an address to its IPv4 form only if that
\* address itself is IPv4-mapped: on an AF_INET6 socket where exactly one of
\* the source and destination addresses is IPv4-mapped, the other address is
\* left in the tuple as it was read.
C37_OnlyMappedRewritten ==
    (conn.phase = "done" /\ conn.skp.skc_family = AF_INET6) =>
        /\ ~IsMapped(conn.skp.skc_v6_rcv_saddr)
               => KeptAsRead(conn.r.t.saddr_h, conn.r.t.saddr_l, conn.skp.skc_v6_rcv_saddr)
        /\ ~IsMapped(conn.skp.skc_v6_daddr)
               => KeptAsRead(conn.r.t.daddr_h, conn.r.t.daddr_l, conn.skp.skc_v6_daddr)

\* what does hold: the addresses are left as read when neither is IPv4-mapped
C37_KeptWhenNoneMapped ==
    (/\ conn.phase = "done" /\ conn.skp.skc_family = AF_INET6
     /\ ~IsMapped(conn.skp.skc_v6_rcv_saddr)
     /\ ~IsMapped(conn.skp.skc_v6_daddr))
        => /\ KeptAsRead(conn.r.t.saddr_h, conn.r.t.saddr_l, conn.skp.skc_v6_rcv_saddr)
           /\ KeptAsRead(conn.r.t.daddr_h, conn.r.t.daddr_l, conn.skp.skc_v6_daddr)

\* source ::ffff:10.0.0.1, destination 2001:db8::1 on a little-endian build:
\* read_conn_tuple returns 0 and the destination of the tuple is 0.0.0.1
C37_GenuineRewritten ==
    /\ conn.phase = "done" /\ ~big_endian /\ conn.r.err = 0
    /\ conn.skp.skc_family = AF_INET6
    /\ conn.skp.skc_v6_rcv_saddr = Mapped(<<10, 0, 0, 1>>)
    /\ conn.skp.skc_v6_daddr = <<32, 1, 13, 184, 0, 0, 0, 0, 0, 0, 0, 0, 0, 0, 0, 1>>
    /\ conn.r.t.daddr_h = Zero64
    /\ conn.r.t.daddr_l = Ext64(Load32(<<0, 0, 0, 1>>, FALSE))

(***************************************************************************)
(* vfs/bpf_vfs.c: the two ways the read/write programs are attached,       *)
(* SpecAttach.  On x86 the programs are fexit programs: they run when      *)
(* vfs_read, vfs_write, vfs_readv or vfs_writev returns and pass its       *)
(* return value to handle_rw_event.  On the other architectures they are   *)
(* kprobes: they run when the function is entered and pass its third       *)
(* argument, the count asked for.  walk holds the kernel call in progress  *)
(* (file, mode, count asked for, value it returns) and conn the            *)
(* architecture the programs were built for.                               *)
(***************************************************************************)
MaxAttachCalls == 2

\* counts asked for: 0, 100, 2^31, 2^32 + 5, and 2^63, which is negative as
\* a ssize_t
AttachCounts ==
    {U64(0), U64(100), <<0, 32768, 0, 0>>, <<5, 0, 1, 0>>, <<0, 0, 0, 32768>>}

\* values a call asked for count may return: an error, or a number of bytes
\* up to count; the kernel refuses a count that is negative as a ssize_t
AttachRets(count) ==
    IF count[4] >= 32768 THEN {0 - 22}
    ELSE {ret \in {0 - 1, 0, 40, 100} : ret <= 0 \/ Leq64(U64(ret), count)}

\* (__s64)ret of a ssize_t ret
fexit_vfs_write(ret) == S64(ret)

\* (__s64)count of the __u64 count = PT_REGS_PARM3(ctx): the same 64 bits,
\* negative from 2^63 on
kprobe_vfs_write(count) == count

\* the __s64 the attached program passes to handle_rw_event for a call
attached_ret(x86, count, ret) ==
    IF x86 THEN fexit_vfs_write(ret) ELSE kprobe_vfs_write(count)

InitAttach ==
    /\ InitBase({FALSE}, {ConfV2}, Counters(0, 0, 0, 0, 0, 0))
    /\ walk = [phase |-> "call", seq |-> 0, file |-> File(<<"scratch">>),
               type |-> MODE_READ, count |-> U64(0), ret |-> 0]
    /\ conn \in {[phase |-> "attach", x86 |-> b] : b \in BOOLEAN}

\* a task calls vfs_read or vfs_write (or the vectored ones) for count bytes;
\* the call will return ret
VfsCall(type, count, ret) ==
    /\ walk.seq = nev
    /\ walk' = [walk EXCEPT !.seq = nev + 1, !.type = type, !.count = count, !.ret = ret]
    /\ last' = [NoLast EXCEPT !.kind = "call"]
    /\ UNCHANGED <<big_endian, conf_map, buffer_heap_map, maps, socks, pc, frame, conn,
                   hist, nev>>

\* the program attached to the function runs for the call in progress:
\* handle_rw_event with the __s64 the program passes; last.ret is that __s64
AttachedRw(cpu, task) ==
    /\ walk.seq = nev + 1
    /\ \E k \in {rw_event_key(conf_map, task, walk.file, buffer_heap_map[cpu])},
          ret \in {attached_ret(conn.x86, walk.count, walk.ret)} :
       LET cgid == ceems_get_current_cgroup_id(conf_map, task)
           name == rw_map_of(walk.type)
           go == k.go /\ name # "none"
           map == IF name = "write" THEN write_accumulator ELSE read_accumulator
       IN  /\ buffer_heap_map' = [buffer_heap_map EXCEPT ![cpu] = k.bf]
           /\ write_accumulator' = IF go /\ name = "write"
                                   THEN rw_event_update(write_accumulator, k.key, ret)
                                   ELSE write_accumulator
           /\ read_accumulator' = IF go /\ name = "read"
                                  THEN rw_event_update(read_accumulator, k.key, ret)
                                  ELSE read_accumulator
           /\ last' = [NoLast EXCEPT !.kind = "rw", !.cgid = cgid, !.type = walk.type,
                                     !.ret = ret, !.go = go, !.key = k.key,
                                     !.found = go /\ k.key \in DOMAIN map]
           /\ nev' = nev + 1
           /\ UNCHANGED <<big_endian, conf_map, open_accumulator, create_accumulator,
                          unlink_accumulator, net_maps, socket_accumulator, socks,
                          pc, frame, walk, conn, hist>>

NextAttach ==
    \/ /\ nev < MaxAttachCalls
       /\ \E type \in {MODE_READ, MODE_WRITE}, count \in AttachCounts :
             \E ret \in AttachRets(count) : VfsCall(type, count, ret)
    \/ AttachedRw(1, TaskInCgroup(U64(42)))

SpecAttach == InitAttach /\ [][NextAttach]_vars

\* the record of the step's key before the step, zeroes if there was none
RwRecordBefore ==
    LET old == IF last'.type = MODE_WRITE THEN write_accumulator ELSE read_accumulator
    IN  IF last'.key \in DOMAIN old THEN old[last'.key]
        ELSE [bytes |-> Zero64, calls |-> Zero64, errors |-> Zero64]

\* the step is the program run for a call; it adds one call to the record of
\* its key, the bytes the call transferred and one error if the call failed
RecordsTheCall ==
    (nev' = nev + 1 /\ last'.kind = "rw") =>
        LET new == IF last'.type = MODE_WRITE THEN write_accumulator'
                   ELSE read_accumulator'
        IN  /\ last'.go /\ last'.type = walk.type
            /\ last'.key \in DOMAIN new
            /\ new[last'.key] =
                  [bytes |-> Add64(RwRecordBefore.bytes,
                                   U64(IF walk.ret > 0 THEN walk.ret ELSE 0)),
                   calls |-> Add64(RwRecordBefore.calls, U64(1)),
                   errors |-> Add64(RwRecordBefore.errors,
                                    U64(IF walk.ret < 0 THEN 1 ELSE 0))]

\* C38: the exit-attached programs of x86 and the entry-attached kprobes of
\* the other architectures record the same bytes, calls and errors for the
\* same completed kernel call: the bytes grow by the amount actually
\* transferred and the errors by 1 exactly when the call returned a negative
\* value.
C38_VariantsRecordTheSame == [][RecordsTheCall]_vars

\* what does hold: the exit-attached programs record the call as it completed
C38_ExitAttachedExact == [][conn.x86 => RecordsTheCall]_vars

\* and the entry-attached ones record the whole count asked for, whatever the
\* call transfers, and an error only for a count of 2^63 or more
C38_EntryAttachedCount ==
    [][(~conn.x86 /\ nev' = nev + 1 /\ last'.kind = "rw") =>
          LET new == IF last'.type = MODE_WRITE THEN write_accumulator'
                     ELSE read_accumulator'
              asked == walk.count
          IN  /\ last'.go
              /\ new[last'.key] =
                    [bytes |-> Add64(RwRecordBefore.bytes,
                                     IF Lt64(asked, <<0, 0, 0, 32768>>) THEN asked ELSE Zero64),
                     calls |-> Add64(RwRecordBefore.calls, U64(1)),
                     errors |-> Add64(RwRecordBefore.errors,
                                      U64(IF Lt64(asked, <<0, 0, 0, 32768>>) THEN 0 ELSE 1))]]_vars

\* a write of 100 bytes that failed, on a build with kprobes: 100 bytes and
\* no error on the record
C38_FailedWriteCounted ==
    /\ ~conn.x86 /\ last.kind = "rw" /\ last.go /\ ~last.found
    /\ walk.type = MODE_WRITE /\ walk.count = U64(100) /\ walk.ret = 0 - 1
    /\ write_accumulator[last.key] = [bytes |-> U64(100), calls |-> U64(1), errors |-> Zero64]

\* the same call on the x86 build: no byte and one error
C38_FailedWriteOnExit ==
    /\ conn.x86 /\ last.kind = "rw" /\ last.go /\ ~last.found
    /\ walk.type = MODE_WRITE /\ walk.count = U64(100) /\ walk.ret = 0 - 1
    /\ write_accumulator[last.key] = [bytes |-> Zero64, calls |-> U64(1), errors |-> U64(1)]

====
